---- MODULE Spec2Model ----
(***************************************************************************)
(* EduAnalytics: the statistics primitives, the classifier, the row        *)
(* normalizer (App.onMappingConfirmed) and the analysis aggregator         *)
(* (performFullAnalysis), with the App component's pipeline state.         *)
(*                                                                         *)
(* JavaScript numbers are binary floating point.  They are modelled as     *)
(* binary floating-point values with a mantissa of MantissaBits bits,      *)
(* round-to-nearest-even after every operation, an unbounded exponent,     *)
(* and the special values Infinity, -Infinity and NaN.  Negative zero is   *)
(* identified with zero (the code never divides by a computed zero other   *)
(* than behind its guards, and -0 === 0).                                  *)
(*                                                                         *)
(* JavaScript strings are modelled as sequences of one-character strings.  *)
(***************************************************************************)
EXTENDS Integers, Sequences, FiniteSets, TLC

\* Width of the mantissa of the modelled floating-point numbers.
MantissaBits == 11

(***************************************************************************)
(* Numbers                                                                 *)
(***************************************************************************)
\* A finite number is m * 2^e with m = 0 (and e = 0) or
\* 2^(MantissaBits-1) <= |m| < 2^MantissaBits.
Zero == [k |-> "fin", m |-> 0, e |-> 0]
NaN == [k |-> "nan", m |-> 0, e |-> 0]
PosInf == [k |-> "inf", m |-> 1, e |-> 0]
NegInf == [k |-> "inf", m |-> -1, e |-> 0]

Abs(i) == IF i < 0 THEN -i ELSE i

\* A const declaration: Body of the value val, which is computed once.
With(val, Body(_)) == Body(val)

isNaN(a) == a.k = "nan"

IsFinite(a) == a.k = "fin"

\* The sign of a number: -1, 0 or 1 (0 for NaN).
Sgn(a) == IF a.m < 0 THEN -1 ELSE IF a.m > 0 THEN 1 ELSE 0

RECURSIVE BitLen(_)
\* The number of bits of the positive integer i.
BitLen(i) == IF i < 2 THEN 1 ELSE 1 + BitLen(i \div 2)

\* i / 2^s rounded to the nearest integer, ties to even (i >= 0, s >= 0).
RoundShift(i, s) ==
  IF s = 0 THEN i
  ELSE LET q == i \div (2 ^ s)
           r == i % (2 ^ s)
           half == 2 ^ (s - 1)
       IN  IF r > half \/ (r = half /\ q % 2 = 1) THEN q + 1 ELSE q

\* The number nearest to sg * i * 2^e (i >= 0): the rounding every
\* arithmetic operation ends with.
Norm(sg, i, e) ==
  IF i = 0 THEN Zero
  ELSE With(BitLen(i), LAMBDA len :
         IF len <= MantissaBits
         THEN [k |-> "fin", m |-> sg * i * (2 ^ (MantissaBits - len)),
               e |-> e - (MantissaBits - len)]
         ELSE With(RoundShift(i, len - MantissaBits), LAMBDA q :
                IF q = 2 ^ MantissaBits
                THEN [k |-> "fin", m |-> sg * (2 ^ (MantissaBits - 1)),
                      e |-> e + (len - MantissaBits) + 1]
                ELSE [k |-> "fin", m |-> sg * q, e |-> e + (len - MantissaBits)]))

\* The number nearest to the integer i.
FromInt(i) == Norm(IF i < 0 THEN -1 ELSE 1, Abs(i), 0)

Neg(a) == [a EXCEPT !.m = -a.m]

\* a + b of two finite numbers.
AddFinite(a, b) ==
  IF a.m = 0 THEN b
  ELSE IF b.m = 0 THEN a
  ELSE LET hi == IF a.e >= b.e THEN a ELSE b
           lo == IF a.e >= b.e THEN b ELSE a
           d == hi.e - lo.e
       IN  IF d > MantissaBits + 1 THEN hi
           ELSE With(hi.m * (2 ^ d) + lo.m, LAMBDA s :
                  Norm(IF s < 0 THEN -1 ELSE 1, Abs(s), lo.e))

\* JavaScript a + b on numbers.
Add(a, b) ==
  IF isNaN(a) \/ isNaN(b) THEN NaN
  ELSE IF a.k = "inf" /\ b.k = "inf" THEN (IF a.m = b.m THEN a ELSE NaN)
  ELSE IF a.k = "inf" THEN a
  ELSE IF b.k = "inf" THEN b
  ELSE AddFinite(a, b)

\* JavaScript a - b.
Sub(a, b) == Add(a, Neg(b))

\* JavaScript a * b.
Mul(a, b) ==
  IF isNaN(a) \/ isNaN(b) THEN NaN
  ELSE IF a.k = "inf" \/ b.k = "inf"
       THEN (IF a.m = 0 \/ b.m = 0 THEN NaN
             ELSE IF Sgn(a) = Sgn(b) THEN PosInf ELSE NegInf)
  ELSE Norm(Sgn(a) * Sgn(b), Abs(a.m) * Abs(b.m), a.e + b.e)

\* JavaScript a / b.
Div(a, b) ==
  IF isNaN(a) \/ isNaN(b) THEN NaN
  ELSE IF a.k = "inf"
       THEN (IF b.k = "inf" THEN NaN
             ELSE IF Sgn(a) * (IF b.m < 0 THEN -1 ELSE 1) > 0 THEN PosInf ELSE NegInf)
  ELSE IF b.k = "inf" THEN Zero
  ELSE IF b.m = 0
       THEN (IF a.m = 0 THEN NaN ELSE IF a.m > 0 THEN PosInf ELSE NegInf)
  ELSE IF a.m = 0 THEN Zero
  ELSE LET num == Abs(a.m) * (2 ^ (MantissaBits + 2))
           q == num \div Abs(b.m)
           r == num % Abs(b.m)
       IN  Norm(Sgn(a) * Sgn(b), 2 * q + (IF r = 0 THEN 0 ELSE 1),
                a.e - b.e - (MantissaBits + 2) - 1)

RECURSIVE IsqrtBetween(_, _, _)
\* The integer square root of x, known to lie in lo..hi.
IsqrtBetween(x, lo, hi) ==
  IF lo = hi THEN lo
  ELSE LET mid == (lo + hi + 1) \div 2
       IN  IF mid * mid <= x THEN IsqrtBetween(x, mid, hi)
           ELSE IsqrtBetween(x, lo, mid - 1)

\* JavaScript Math.sqrt(a).
Sqrt(a) ==
  IF isNaN(a) \/ a.m < 0 THEN NaN
  ELSE IF a.k = "inf" \/ a.m = 0 THEN a
  ELSE LET t == IF (a.e - (MantissaBits + 2)) % 2 = 0
                THEN MantissaBits + 2 ELSE MantissaBits + 3
           x == a.m * (2 ^ t)
       IN  With(IsqrtBetween(x, 0, 2 ^ (MantissaBits + 2)), LAMBDA r :
             Norm(1, 2 * r + (IF r * r = x THEN 0 ELSE 1), ((a.e - t) \div 2) - 1))

\* JavaScript a < b, a >= b, a > b and a === b on numbers (false on NaN).
Lt(a, b) == ~isNaN(a) /\ ~isNaN(b) /\ a # b /\ Sgn(Sub(a, b)) < 0
Ge(a, b) == ~isNaN(a) /\ ~isNaN(b) /\ (a = b \/ Sgn(Sub(a, b)) > 0)
Gt(a, b) == Lt(b, a)
NumEq(a, b) == ~isNaN(a) /\ a = b

(***************************************************************************)
(* Strings                                                                 *)
(***************************************************************************)
UpperChars == <<"A", "B", "C", "D", "E", "F", "G", "H", "I", "J", "K", "L", "M",
                "N", "O", "P", "Q", "R", "S", "T", "U", "V", "W", "X", "Y", "Z">>
LowerChars == <<"a", "b", "c", "d", "e", "f", "g", "h", "i", "j", "k", "l", "m",
                "n", "o", "p", "q", "r", "s", "t", "u", "v", "w", "x", "y", "z">>
DigitChars == <<"0", "1", "2", "3", "4", "5", "6", "7", "8", "9">>

IsDigit(c) == \E i \in 1..10 : DigitChars[i] = c

DigitVal(c) == (CHOOSE i \in 1..10 : DigitChars[i] = c) - 1

\* White space as String.prototype.trim and parseFloat strip it (the
\* modelled strings hold no other white space than the blank).
IsSpace(c) == c = " "

LowerChar(c) ==
  IF \E i \in 1..26 : UpperChars[i] = c
  THEN LowerChars[CHOOSE i \in 1..26 : UpperChars[i] = c]
  ELSE c

\* String.prototype.toLowerCase.
toLowerCase(s) == [i \in 1..Len(s) |-> LowerChar(s[i])]

RECURSIVE SkipSpaces(_, _)
\* The first position from i on that holds no white space.
SkipSpaces(s, i) == IF i <= Len(s) /\ IsSpace(s[i]) THEN SkipSpaces(s, i + 1) ELSE i

RECURSIVE SkipSpacesBack(_, _)
\* The last position up to i that holds no white space.
SkipSpacesBack(s, i) == IF i >= 1 /\ IsSpace(s[i]) THEN SkipSpacesBack(s, i - 1) ELSE i

\* String.prototype.trim.
trim(s) ==
  LET lo == SkipSpaces(s, 1)
      hi == SkipSpacesBack(s, Len(s))
  IN  IF lo > hi THEN <<>> ELSE SubSeq(s, lo, hi)

RECURSIVE DigitsEnd(_, _)
\* The position after the run of digits of s that starts at i.
DigitsEnd(s, i) == IF i <= Len(s) /\ IsDigit(s[i]) THEN DigitsEnd(s, i + 1) ELSE i

RECURSIVE DigitsValue(_, _, _, _)
\* The integer written by the digits s[i .. j-1], after the digits worth acc.
DigitsValue(s, i, j, acc) ==
  IF i >= j THEN acc ELSE DigitsValue(s, i + 1, j, 10 * acc + DigitVal(s[i]))

\* Whether s holds the string w from position i on.
HasPrefixAt(s, i, w) == i + Len(w) - 1 <= Len(s) /\ SubSeq(s, i, i + Len(w) - 1) = w

InfinityStr == <<"I", "n", "f", "i", "n", "i", "t", "y">>

\* The global parseFloat: leading white space, a sign, then "Infinity" or
\* the longest decimal literal; NaN when there is none.  (An exponent part
\* is not modelled: no modelled cell holds one.)
parseFloat(s) ==
  With(SkipSpaces(s, 1), LAMBDA i0 :
  With(i0 <= Len(s) /\ s[i0] = "-", LAMBDA neg :
  With(IF i0 <= Len(s) /\ s[i0] \in {"+", "-"} THEN i0 + 1 ELSE i0, LAMBDA i1 :
    IF HasPrefixAt(s, i1, InfinityStr) THEN (IF neg THEN NegInf ELSE PosInf)
    ELSE
  With(DigitsEnd(s, i1), LAMBDA i2 :
  With(i2 <= Len(s) /\ s[i2] = ".", LAMBDA hasDot :
  With(IF hasDot THEN DigitsEnd(s, i2 + 1) ELSE i2, LAMBDA i3 :
  With(IF hasDot THEN i3 - (i2 + 1) ELSE 0, LAMBDA nFrac :
    IF (i2 - i1) + nFrac = 0 THEN NaN
    ELSE
  With(DigitsValue(s, i1, i2, 0), LAMBDA whole :
  With(IF hasDot THEN DigitsValue(s, i2 + 1, i3, whole) ELSE whole, LAMBDA all :
  With(IF nFrac = 0 THEN FromInt(all) ELSE Div(FromInt(all), FromInt(10 ^ nFrac)),
       LAMBDA mag :
    IF neg THEN Neg(mag) ELSE mag))))))))))

RECURSIVE NatToString(_)
\* The decimal digits of the natural number n.
NatToString(n) ==
  IF n < 10 THEN <<DigitChars[n + 1]>>
  ELSE NatToString(n \div 10) \o <<DigitChars[(n % 10) + 1]>>

\* Number.prototype.toString of an integer.
IntToString(n) == IF n < 0 THEN <<"-">> \o NatToString(-n) ELSE NatToString(n)

\* The integer n for which n / scale is nearest to a * 2^e (a >= 0), the
\* larger one of two: the n of Number.prototype.toFixed.  Below 2^-15 the
\* value rounds to 0 for every scale up to 10^4.
FixedDigits(a, e, scale) ==
  IF a = 0 THEN 0
  ELSE IF e >= 0 THEN a * (2 ^ e) * scale
  ELSE IF -e > MantissaBits + 15 THEN 0
  ELSE (2 * a * scale + 2 ^ (-e)) \div (2 * (2 ^ (-e)))

\* The digits ds of n written with fractionDigits digits after the point.
FixedString(ds, fractionDigits) ==
  With(IF Len(ds) <= fractionDigits
       THEN [i \in 1..(fractionDigits + 1 - Len(ds)) |-> "0"] \o ds ELSE ds, LAMBDA padded :
    IF fractionDigits = 0 THEN padded
    ELSE SubSeq(padded, 1, Len(padded) - fractionDigits) \o <<".">>
           \o SubSeq(padded, Len(padded) - fractionDigits + 1, Len(padded)))

\* Number.prototype.toFixed(fractionDigits), for numbers below 10^21.
toFixed(x, fractionDigits) ==
  CASE x.k = "nan" -> <<"N", "a", "N">>
    [] x.k = "inf" -> IF x.m > 0 THEN InfinityStr ELSE <<"-">> \o InfinityStr
    [] OTHER ->
         (IF x.m < 0 THEN <<"-">> ELSE <<>>)
           \o FixedString(NatToString(FixedDigits(Abs(x.m), x.e, 10 ^ fractionDigits)),
                          fractionDigits)

(***************************************************************************)
(* Cells, rows and objects                                                 *)
(***************************************************************************)
\* A raw cell (RawRow's string | number | undefined | null).  A number cell
\* holds an integer n.
Null == [t |-> "null", n |-> 0, s |-> <<>>]
Undefined == [t |-> "undefined", n |-> 0, s |-> <<>>]
NumCell(n) == [t |-> "number", n |-> n, s |-> <<>>]
StrCell(s) == [t |-> "string", n |-> 0, s |-> s]

\* JavaScript truthiness of a cell.
Truthy(c) == (c.t = "string" /\ c.s # <<>>) \/ (c.t = "number" /\ c.n # 0)

\* String(c).
String(c) ==
  CASE c.t = "string" -> c.s
    [] c.t = "number" -> IntToString(c.n)
    [] c.t = "null" -> <<"n", "u", "l", "l">>
    [] OTHER -> <<"u", "n", "d", "e", "f", "i", "n", "e", "d">>

\* Whether the property key k is an array index ("0", "7", "12"): such
\* keys come first, in ascending order, when a JavaScript object's keys
\* are listed.
IsIndexKey(k) ==
  /\ Len(k) >= 1
  /\ \A i \in 1..Len(k) : IsDigit(k[i])
  /\ (Len(k) > 1 => k[1] # "0")

IndexOf(k) == DigitsValue(k, 1, Len(k) + 1, 0)

\* An object is the sequence of its own properties [key, val] in the order
\* in which JavaScript lists them.
\* Object.prototype.hasOwnProperty.call(obj, k).
hasOwnProperty(obj, k) == \E i \in 1..Len(obj) : obj[i].key = k

\* Object.keys(obj).
ObjectKeys(obj) == [i \in 1..Len(obj) |-> obj[i].key]

\* obj[k] of an own property k.
ObjGet(obj, k) == obj[CHOOSE i \in 1..Len(obj) : obj[i].key = k].val

\* The position at which a new property k is listed among those of obj.
InsertPos(obj, k) ==
  IF IsIndexKey(k)
  THEN 1 + Cardinality({i \in 1..Len(obj) :
                          IsIndexKey(obj[i].key) /\ IndexOf(obj[i].key) < IndexOf(k)})
  ELSE Len(obj) + 1

\* obj after obj[k] = v.
ObjSet(obj, k, v) ==
  IF hasOwnProperty(obj, k)
  THEN [i \in 1..Len(obj) |-> IF obj[i].key = k THEN [key |-> k, val |-> v] ELSE obj[i]]
  ELSE With(InsertPos(obj, k), LAMBDA p :
         SubSeq(obj, 1, p - 1) \o <<[key |-> k, val |-> v]>> \o SubSeq(obj, p, Len(obj)))


(***************************************************************************)
(* Statistics primitives (src/services/geminiService.ts)                   *)
(***************************************************************************)
RECURSIVE SumFrom(_, _, _)
\* numbers.reduce((acc, val) => acc + val, acc) from position i on.
SumFrom(numbers, i, acc) ==
  IF i > Len(numbers) THEN acc ELSE SumFrom(numbers, i + 1, Add(acc, numbers[i]))

\* calculateMean without its guard for the empty sequence.
calculateMean_Unguarded(numbers) == Div(SumFrom(numbers, 1, Zero), FromInt(Len(numbers)))

calculateMean(numbers) ==
  IF Len(numbers) = 0 THEN Zero
  ELSE Div(SumFrom(numbers, 1, Zero), FromInt(Len(numbers)))

RECURSIVE BinaryInsertPos(_, _, _, _)
\* Array.prototype.sort((a, b) => a - b) places the next element (pivot)
\* into the sorted prefix by bisection: left of an element only when the
\* comparator's value is below 0 (a NaN value counts as 0).
BinaryInsertPos(sorted, pivot, left, right) ==
  IF left >= right THEN left
  ELSE LET mid == left + ((right - left) \div 2)
       IN  IF Sgn(Sub(pivot, sorted[mid + 1])) < 0
           THEN BinaryInsertPos(sorted, pivot, left, mid)
           ELSE BinaryInsertPos(sorted, pivot, mid + 1, right)

RECURSIVE SortAscending(_, _, _)
\* [...numbers].sort((a, b) => a - b): the elements from position i on
\* inserted one by one into the sorted prefix.
SortAscending(numbers, i, sorted) ==
  IF i > Len(numbers) THEN sorted
  ELSE With(BinaryInsertPos(sorted, numbers[i], 0, Len(sorted)), LAMBDA p :
         SortAscending(numbers, i + 1,
                       SubSeq(sorted, 1, p) \o <<numbers[i]>> \o SubSeq(sorted, p + 1, Len(sorted))))

calculateMedian(numbers) ==
  IF Len(numbers) = 0 THEN Zero
  ELSE With(SortAscending(numbers, 1, <<>>), LAMBDA sorted :
       With(Len(sorted) \div 2, LAMBDA mid :
         IF Len(sorted) % 2 # 0 THEN sorted[mid + 1]
         ELSE Div(Add(sorted[mid], sorted[mid + 1]), FromInt(2))))

RECURSIVE ModeScan_LastToReach(_, _, _, _, _)
\* The scan of calculateMode with >= for >: the last value to reach the
\* maximal count wins.
ModeScan_LastToReach(numbers, i, frequency, maxFreq, mode) ==
  IF i > Len(numbers) THEN mode
  ELSE LET num == numbers[i]
           count == (IF num \in DOMAIN frequency THEN frequency[num] ELSE 0) + 1
           freq2 == [n \in DOMAIN frequency \cup {num} |->
                       IF n = num THEN count ELSE frequency[n]]
       IN  IF count >= maxFreq
           THEN ModeScan_LastToReach(numbers, i + 1, freq2, count, num)
           ELSE ModeScan_LastToReach(numbers, i + 1, freq2, maxFreq, mode)

RECURSIVE ModeScan(_, _, _, _, _)
\* The forEach of calculateMode from position i on: frequency maps each
\* number seen to its count.
ModeScan(numbers, i, frequency, maxFreq, mode) ==
  IF i > Len(numbers) THEN mode
  ELSE LET num == numbers[i]
           count == (IF num \in DOMAIN frequency THEN frequency[num] ELSE 0) + 1
           freq2 == [n \in DOMAIN frequency \cup {num} |->
                       IF n = num THEN count ELSE frequency[n]]
       IN  IF count > maxFreq
           THEN ModeScan(numbers, i + 1, freq2, count, num)
           ELSE ModeScan(numbers, i + 1, freq2, maxFreq, mode)

calculateMode(numbers) ==
  IF Len(numbers) = 0 THEN Zero
  ELSE ModeScan(numbers, 1, [n \in {} |-> 0], 0, numbers[1])

calculateStdDev(numbers, mean) ==
  IF Len(numbers) = 0 THEN Zero
  ELSE LET Square(diff) == Mul(diff, diff)
           squareDiffs == [i \in 1..Len(numbers) |-> Square(Sub(numbers[i], mean))]
       IN  Sqrt(calculateMean(squareDiffs))

RECURSIVE MinScan(_, _, _)
MinScan(numbers, i, min) ==
  IF i > Len(numbers) THEN min
  ELSE MinScan(numbers, i + 1, IF Lt(numbers[i], min) THEN numbers[i] ELSE min)

calculateMin(numbers) ==
  IF Len(numbers) = 0 THEN Zero ELSE MinScan(numbers, 2, numbers[1])

RECURSIVE MaxScan(_, _, _)
MaxScan(numbers, i, max) ==
  IF i > Len(numbers) THEN max
  ELSE MaxScan(numbers, i + 1, IF Gt(numbers[i], max) THEN numbers[i] ELSE max)

calculateMax(numbers) ==
  IF Len(numbers) = 0 THEN Zero ELSE MaxScan(numbers, 2, numbers[1])

RECURSIVE CorrelationSums(_, _, _, _, _, _)
\* The loop of calculateCorrelation from position i on; acc holds
\* numerator, denomX and denomY.
CorrelationSums(xs, ys, xMean, yMean, i, acc) ==
  IF i > Len(xs) THEN acc
  ELSE With(Sub(xs[i], xMean), LAMBDA xDiff :
       With(Sub(ys[i], yMean), LAMBDA yDiff :
         CorrelationSums(xs, ys, xMean, yMean, i + 1,
           [numerator |-> Add(acc.numerator, Mul(xDiff, yDiff)),
            denomX |-> Add(acc.denomX, Mul(xDiff, xDiff)),
            denomY |-> Add(acc.denomY, Mul(yDiff, yDiff))])))

\* calculateCorrelation dividing by the first sequence's sum of squares
\* alone.
calculateCorrelation_OneSided(xs, ys) ==
  IF Len(xs) # Len(ys) \/ Len(xs) = 0 THEN Zero
  ELSE With(CorrelationSums(xs, ys, calculateMean(xs), calculateMean(ys), 1,
                            [numerator |-> Zero, denomX |-> Zero, denomY |-> Zero]),
            LAMBDA sums :
       With(Sqrt(Mul(sums.denomX, sums.denomX)), LAMBDA denominator :
         IF denominator = Zero \/ isNaN(denominator) THEN Zero
         ELSE Div(sums.numerator, denominator)))

calculateCorrelation(xs, ys) ==
  IF Len(xs) # Len(ys) \/ Len(xs) = 0 THEN Zero
  ELSE With(CorrelationSums(xs, ys, calculateMean(xs), calculateMean(ys), 1,
                            [numerator |-> Zero, denomX |-> Zero, denomY |-> Zero]),
            LAMBDA sums :
       With(Sqrt(Mul(sums.denomX, sums.denomY)), LAMBDA denominator :
         IF denominator = Zero \/ isNaN(denominator) THEN Zero
         ELSE Div(sums.numerator, denominator)))

(***************************************************************************)
(* Classifier                                                              *)
(***************************************************************************)
\* determineGroup with exclusive lower bounds.
determineGroup_Exclusive(percentage) ==
  IF Gt(percentage, FromInt(90)) THEN "High Achiever"
  ELSE IF Gt(percentage, FromInt(75)) THEN "Above Average"
  ELSE IF Gt(percentage, FromInt(60)) THEN "Average"
  ELSE IF Gt(percentage, FromInt(50)) THEN "Below Average"
  ELSE "At Risk"

determineGroup(percentage) ==
  IF Ge(percentage, FromInt(90)) THEN "High Achiever"
  ELSE IF Ge(percentage, FromInt(75)) THEN "Above Average"
  ELSE IF Ge(percentage, FromInt(60)) THEN "Average"
  ELSE IF Ge(percentage, FromInt(50)) THEN "Below Average"
  ELSE "At Risk"

determineGrade(percentage) ==
  IF Ge(percentage, FromInt(90)) THEN "A"
  ELSE IF Ge(percentage, FromInt(80)) THEN "B"
  ELSE IF Ge(percentage, FromInt(70)) THEN "C"
  ELSE IF Ge(percentage, FromInt(60)) THEN "D"
  ELSE "F"

(***************************************************************************)
(* Analysis aggregator                                                     *)
(***************************************************************************)
\* students.filter(pred).length
CountWhere(students, Pred(_)) == Cardinality({i \in 1..Len(students) : Pred(students[i])})

\* s.components[key]; a missing key reads undefined, which is NaN in the
\* arithmetic that follows.
ComponentValue(s, key) ==
  IF hasOwnProperty(s.components, key) THEN ObjGet(s.components, key) ELSE NaN

RECURSIVE ComponentInsertPos(_, _, _, _)
\* Array.prototype.sort((a, b) => b.mean - a.mean): as BinaryInsertPos.
ComponentInsertPos(sorted, pivot, left, right) ==
  IF left >= right THEN left
  ELSE LET mid == left + ((right - left) \div 2)
       IN  IF Sgn(Sub(sorted[mid + 1].mean, pivot.mean)) < 0
           THEN ComponentInsertPos(sorted, pivot, left, mid)
           ELSE ComponentInsertPos(sorted, pivot, mid + 1, right)

RECURSIVE SortByMeanDescending(_, _, _)
SortByMeanDescending(stats, i, sorted) ==
  IF i > Len(stats) THEN sorted
  ELSE With(ComponentInsertPos(sorted, stats[i], 0, Len(sorted)), LAMBDA p :
         SortByMeanDescending(stats, i + 1,
                              SubSeq(sorted, 1, p) \o <<stats[i]>> \o SubSeq(sorted, p + 1, Len(sorted))))

NotAvailable == <<"N", "/", "A">>

\* ComponentStatOf with the correlation taken against the totals in
\* reverse order.
ComponentStatOf_Misaligned(students, scores, key) ==
  With([i \in 1..Len(students) |-> ComponentValue(students[i], key)], LAMBDA compScores :
  With(calculateMean(compScores), LAMBDA compMean :
    [name |-> key,
     mean |-> compMean,
     median |-> calculateMedian(compScores),
     mode |-> calculateMode(compScores),
     stdDev |-> calculateStdDev(compScores, compMean),
     min |-> calculateMin(compScores),
     max |-> calculateMax(compScores),
     correlationWithTotal |->
       calculateCorrelation(compScores,
                            [i \in 1..Len(scores) |-> scores[Len(scores) + 1 - i]])]))

\* The callback of componentKeys.map: the statistics of one component.
ComponentStatOf(students, scores, key) ==
  With([i \in 1..Len(students) |-> ComponentValue(students[i], key)], LAMBDA compScores :
  With(calculateMean(compScores), LAMBDA compMean :
    [name |-> key,
     mean |-> compMean,
     median |-> calculateMedian(compScores),
     mode |-> calculateMode(compScores),
     stdDev |-> calculateStdDev(compScores, compMean),
     min |-> calculateMin(compScores),
     max |-> calculateMax(compScores),
     correlationWithTotal |-> calculateCorrelation(compScores, scores)]))

SummaryOf(students, scores) ==
  LET IsPass(s) == Ge(s.percentage, FromInt(60))
      IsFail(s) == Lt(s.percentage, FromInt(60))
      IsA(s) == determineGrade(s.percentage) = "A"
      IsB(s) == determineGrade(s.percentage) = "B"
      IsC(s) == determineGrade(s.percentage) = "C"
      IsD(s) == determineGrade(s.percentage) = "D"
      IsF(s) == determineGrade(s.percentage) = "F"
  IN  [mean |-> calculateMean(scores),
       median |-> calculateMedian(scores),
       mode |-> calculateMode(scores),
       stdDev |-> calculateStdDev(scores, calculateMean(scores)),
       min |-> calculateMin(scores),
       max |-> calculateMax(scores),
       range |-> Sub(calculateMax(scores), calculateMin(scores)),
       passCount |-> CountWhere(students, IsPass),
       failCount |-> CountWhere(students, IsFail),
       gradeDist |-> [A |-> CountWhere(students, IsA),
                      B |-> CountWhere(students, IsB),
                      C |-> CountWhere(students, IsC),
                      D |-> CountWhere(students, IsD),
                      F |-> CountWhere(students, IsF)]]

\* performFullAnalysis whose sort for the strongest and weakest component
\* is done on componentStats itself, not on a copy.
performFullAnalysis_SortInPlace(students) ==
  With([i \in 1..Len(students) |-> students[i].percentage], LAMBDA scores :
  With(IF Len(students) > 0 THEN ObjectKeys(students[1].components) ELSE <<>>,
       LAMBDA componentKeys :
  With([j \in 1..Len(componentKeys) |-> ComponentStatOf(students, scores, componentKeys[j])],
       LAMBDA componentStats :
  With(SortByMeanDescending(componentStats, 1, <<>>), LAMBDA sortedComponents :
    [summary |-> SummaryOf(students, scores),
     componentStats |-> sortedComponents,
     strongestComponent |->
       IF Len(sortedComponents) > 0 /\ sortedComponents[1].name # <<>>
       THEN sortedComponents[1].name ELSE NotAvailable,
     weakestComponent |->
       IF Len(sortedComponents) > 0 /\ sortedComponents[Len(sortedComponents)].name # <<>>
       THEN sortedComponents[Len(sortedComponents)].name ELSE NotAvailable]))))

performFullAnalysis(students) ==
  With([i \in 1..Len(students) |-> students[i].percentage], LAMBDA scores :
  With(IF Len(students) > 0 THEN ObjectKeys(students[1].components) ELSE <<>>,
       LAMBDA componentKeys :
  With([j \in 1..Len(componentKeys) |-> ComponentStatOf(students, scores, componentKeys[j])],
       LAMBDA componentStats :
  With(SortByMeanDescending(componentStats, 1, <<>>), LAMBDA sortedComponents :
    [summary |-> SummaryOf(students, scores),
     componentStats |-> componentStats,
     strongestComponent |->
       IF Len(sortedComponents) > 0 /\ sortedComponents[1].name # <<>>
       THEN sortedComponents[1].name ELSE NotAvailable,
     weakestComponent |->
       IF Len(sortedComponents) > 0 /\ sortedComponents[Len(sortedComponents)].name # <<>>
       THEN sortedComponents[Len(sortedComponents)].name ELSE NotAvailable]))))

(***************************************************************************)
(* AI service (src/services/geminiService.ts)                              *)
(***************************************************************************)
\* The texts interpolated into the prompt of generateEducationalActionPlan,
\* in the order of the template, with the students' names added.
PromptOf_WithStudentNames(analysis) ==
  [mean |-> toFixed(analysis.result.summary.mean, 1),
   stdDev |-> toFixed(analysis.result.summary.stdDev, 1),
   passRate |->
     toFixed(Mul(Div(FromInt(analysis.result.summary.passCount),
                     FromInt(analysis.result.summary.passCount
                               + analysis.result.summary.failCount)),
                 FromInt(100)), 1),
   failing |-> IntToString(analysis.result.summary.failCount),
   strongest |-> analysis.result.strongestComponent,
   weakest |-> analysis.result.weakestComponent,
   components |->
     [j \in 1..Len(analysis.result.componentStats) |->
        [name |-> analysis.result.componentStats[j].name,
         mean |-> toFixed(analysis.result.componentStats[j].mean, 1),
         correlation |-> toFixed(analysis.result.componentStats[j].correlationWithTotal, 2)]],
   students |-> [i \in 1..Len(analysis.students) |-> analysis.students[i].name]]

\* The texts interpolated into the prompt of generateEducationalActionPlan,
\* in the order of the template; the fixed text of the template is left
\* out.  analysis is the FullAnalysis: the result of performFullAnalysis
\* and the students.
PromptOf(analysis) ==
  [mean |-> toFixed(analysis.result.summary.mean, 1),
   stdDev |-> toFixed(analysis.result.summary.stdDev, 1),
   passRate |->
     toFixed(Mul(Div(FromInt(analysis.result.summary.passCount),
                     FromInt(analysis.result.summary.passCount
                               + analysis.result.summary.failCount)),
                 FromInt(100)), 1),
   failing |-> IntToString(analysis.result.summary.failCount),
   strongest |-> analysis.result.strongestComponent,
   weakest |-> analysis.result.weakestComponent,
   components |->
     [j \in 1..Len(analysis.result.componentStats) |->
        [name |-> analysis.result.componentStats[j].name,
         mean |-> toFixed(analysis.result.componentStats[j].mean, 1),
         correlation |-> toFixed(analysis.result.componentStats[j].correlationWithTotal, 2)]]]

\* The argument of ai.models.generateContent.
GenerateContentRequest(analysis) ==
  [model |-> "gemini-2.5-flash",
   contents |-> PromptOf(analysis),
   config |-> [responseMimeType |-> "application/json"]]

(***************************************************************************)
(* Row normalizer (src/App.tsx)                                            *)
(***************************************************************************)
\* getSmartValue without the exact match: the first key equal to colName
\* up to case and surrounding white space, else undefined.
getSmartValue_FoldedFirst(row, colName) ==
  With(trim(toLowerCase(colName)), LAMBDA lowerColName :
  With({i \in 1..Len(row) : trim(toLowerCase(row[i].key)) = lowerColName}, LAMBDA hits :
    IF hits # {} /\ row[CHOOSE i \in hits : \A j \in hits : i <= j].key # <<>>
    THEN row[CHOOSE i \in hits : \A j \in hits : i <= j].val
    ELSE Undefined))

\* getSmartValue(row, colName): the exact key, else the first key equal
\* to colName up to case and surrounding white space, else undefined.
getSmartValue(row, colName) ==
  IF hasOwnProperty(row, colName) THEN ObjGet(row, colName)
  ELSE With(trim(toLowerCase(colName)), LAMBDA lowerColName :
       With({i \in 1..Len(row) : trim(toLowerCase(row[i].key)) = lowerColName}, LAMBDA hits :
         IF hits # {} /\ row[CHOOSE i \in hits : \A j \in hits : i <= j].key # <<>>
         THEN row[CHOOSE i \in hits : \A j \in hits : i <= j].val
         ELSE Undefined))

SheetSourceKey == <<"S", "h", "e", "e", "t", "S", "o", "u", "r", "c", "e">>
UnknownStr == <<"U", "n", "k", "n", "o", "w", "n">>
OverallScoreStr == <<"O", "v", "e", "r", "a", "l", "l", " ", "S", "c", "o", "r", "e">>
AllStr == <<"A", "l", "l">>

RECURSIVE MergeSheets(_, _, _, _)
\* The forEach over selectedSheetNames from position i on: the rows of
\* each selected sheet, tagged with SheetSource, appended to allRows.
MergeSheets(sheetData, names, i, allRows) ==
  IF i > Len(names) THEN allRows
  ELSE With(IF hasOwnProperty(sheetData, names[i]) THEN ObjGet(sheetData, names[i]) ELSE <<>>,
            LAMBDA src :
         MergeSheets(sheetData, names, i + 1,
           allRows \o [r \in 1..Len(src) |-> ObjSet(src[r], SheetSourceKey, StrCell(names[i]))]))

\* CleanVal without the replacement of NaN by 0.
CleanVal_KeepNaN(rawVal) ==
  parseFloat(IF Truthy(rawVal) THEN String(rawVal) ELSE <<"0">>)

\* parseFloat(String(rawVal || '0')), NaN replaced by 0.
CleanVal(rawVal) ==
  With(parseFloat(IF Truthy(rawVal) THEN String(rawVal) ELSE <<"0">>), LAMBDA val :
    IF isNaN(val) THEN Zero ELSE val)

RECURSIVE ExtractComponents_PresentOnly(_, _, _, _)
\* ExtractComponents that gives a record a component only when its row
\* resolves the column.
ExtractComponents_PresentOnly(row, cols, i, acc) ==
  IF i > Len(cols) THEN acc
  ELSE IF getSmartValue(row, cols[i]) = Undefined
       THEN ExtractComponents_PresentOnly(row, cols, i + 1, acc)
  ELSE With(CleanVal(getSmartValue(row, cols[i])), LAMBDA cleanVal :
         ExtractComponents_PresentOnly(row, cols, i + 1,
           [components |-> ObjSet(acc.components, cols[i], cleanVal),
            sumComponents |-> Add(acc.sumComponents, cleanVal)]))

RECURSIVE ExtractComponents(_, _, _, _)
\* The forEach over mapping.componentCols from position i on; acc holds
\* components and sumComponents.
ExtractComponents(row, cols, i, acc) ==
  IF i > Len(cols) THEN acc
  ELSE With(CleanVal(getSmartValue(row, cols[i])), LAMBDA cleanVal :
         ExtractComponents(row, cols, i + 1,
           [components |-> ObjSet(acc.components, cols[i], cleanVal),
            sumComponents |-> Add(acc.sumComponents, cleanVal)]))

\* ResolveTotal without the fallback to the component sum.
ResolveTotal_NoFallback(row, mapping, sumComponents) ==
  IF mapping.totalCol # <<>>
  THEN parseFloat(String(getSmartValue(row, mapping.totalCol)))
  ELSE sumComponents

\* The total of a row: the parsed total column when one is mapped and
\* parses, else the component sum.
ResolveTotal(row, mapping, sumComponents) ==
  IF mapping.totalCol # <<>>
  THEN With(parseFloat(String(getSmartValue(row, mapping.totalCol))), LAMBDA tVal :
         IF ~isNaN(tVal) THEN tVal ELSE sumComponents)
  ELSE sumComponents

\* The name of a row: String(rawName) of a truthy cell, else ''.
ResolveName(row, mapping) ==
  With(getSmartValue(row, mapping.nameCol), LAMBDA rawName :
    IF Truthy(rawName) THEN String(rawName) ELSE <<>>)

\* String(row['SheetSource'] || 'Unknown')
SheetNameOf(row) ==
  With(IF hasOwnProperty(row, SheetSourceKey) THEN ObjGet(row, SheetSourceKey) ELSE Undefined,
       LAMBDA src :
    IF Truthy(src) THEN String(src) ELSE UnknownStr)

ResolveClass(row, mapping) ==
  IF mapping.classCol = <<>> THEN SheetNameOf(row)
  ELSE With(getSmartValue(row, mapping.classCol), LAMBDA rawClass :
         IF Truthy(rawClass) THEN String(rawClass) ELSE SheetNameOf(row))

\* The callback of allRows.map with an id that leaves out the row index.
ProcessRow_IdWithoutIndex(row, idx, mapping) ==
  With(SheetNameOf(row), LAMBDA sheetName :
  With(ExtractComponents(row, mapping.componentCols, 1,
                         [components |-> <<>>, sumComponents |-> Zero]), LAMBDA ext :
  With(ResolveTotal(row, mapping, ext.sumComponents), LAMBDA total :
    [id |-> <<"s", "-">> \o sheetName,
     name |-> ResolveName(row, mapping),
     class |-> ResolveClass(row, mapping),
     components |-> ext.components,
     totalScore |-> total,
     maxPossibleScore |-> FromInt(100),
     percentage |-> total,
     group |-> determineGroup(total),
     originalRow |-> row,
     sheetName |-> sheetName])))

\* The callback of allRows.map with the percentage taken of a maximum
\* score of 200.
ProcessRow_Rescaled(row, idx, mapping) ==
  With(SheetNameOf(row), LAMBDA sheetName :
  With(ExtractComponents(row, mapping.componentCols, 1,
                         [components |-> <<>>, sumComponents |-> Zero]), LAMBDA ext :
  With(ResolveTotal(row, mapping, ext.sumComponents), LAMBDA total :
    [id |-> <<"s", "-">> \o sheetName \o <<"-">> \o IntToString(idx),
     name |-> ResolveName(row, mapping),
     class |-> ResolveClass(row, mapping),
     components |-> ext.components,
     totalScore |-> total,
     maxPossibleScore |-> FromInt(200),
     percentage |-> Mul(Div(total, FromInt(200)), FromInt(100)),
     group |-> determineGroup(Mul(Div(total, FromInt(200)), FromInt(100))),
     originalRow |-> row,
     sheetName |-> sheetName])))

\* The callback of allRows.map: the record of the row at (0-based) idx.
ProcessRow(row, idx, mapping) ==
  With(SheetNameOf(row), LAMBDA sheetName :
  With(ExtractComponents(row, mapping.componentCols, 1,
                         [components |-> <<>>, sumComponents |-> Zero]), LAMBDA ext :
  With(ResolveTotal(row, mapping, ext.sumComponents), LAMBDA total :
    [id |-> <<"s", "-">> \o sheetName \o <<"-">> \o IntToString(idx),
     name |-> ResolveName(row, mapping),
     class |-> ResolveClass(row, mapping),
     components |-> ext.components,
     totalScore |-> total,
     maxPossibleScore |-> FromInt(100),
     percentage |-> total,
     group |-> determineGroup(total),
     originalRow |-> row,
     sheetName |-> sheetName])))

\* The predicate of the filter without the trim.
HasValidName_Untrimmed(student) == student.name # <<>>

\* The predicate of the filter: student.name && student.name.trim() !== ''
HasValidName(student) == student.name # <<>> /\ trim(student.name) # <<>>

\* seq.filter(Keep)
RECURSIVE FilterFrom(_, _, _, _)
FilterFrom(seq, Keep(_), i, acc) ==
  IF i > Len(seq) THEN acc
  ELSE FilterFrom(seq, Keep, i + 1, IF Keep(seq[i]) THEN Append(acc, seq[i]) ELSE acc)

\* processedStudents of onMappingConfirmed.
ProcessStudents(allRows, mapping) ==
  FilterFrom([i \in 1..Len(allRows) |-> ProcessRow(allRows[i], i - 1, mapping)],
             HasValidName, 1, <<>>)

\* filteredStudents (useMemo) that lets every record through.
FilteredStudents_FilterIgnored(students, filter) == students

\* filteredStudents (useMemo).
FilteredStudents(students, filter) ==
  IF filter = AllStr THEN students
  ELSE LET OnSheet(s) == s.sheetName = filter
       IN  FilterFrom(students, OnSheet, 1, <<>>)

\* analysis (useMemo) without the test for an empty filtered set.
AnalysisOf_Unguarded(filtered) ==
  <<[result |-> performFullAnalysis(filtered), students |-> filtered]>>

\* analysis (useMemo): null, written <<>>, for an empty filtered set, else
\* the one-element sequence of the result with the students.
AnalysisOf(filtered) ==
  IF Len(filtered) = 0 THEN <<>>
  ELSE <<[result |-> performFullAnalysis(filtered), students |-> filtered]>>

\* getHeaders(): the keys of the first row of the first selected sheet.
getHeaders(sheetData, names) ==
  IF Len(names) = 0 THEN <<>>
  ELSE IF ~hasOwnProperty(sheetData, names[1]) THEN <<>>
  ELSE IF Len(ObjGet(sheetData, names[1])) = 0 THEN <<>>
  ELSE ObjectKeys(ObjGet(sheetData, names[1])[1])

(***************************************************************************)
(* FileUpload.handleFile: the headers of a sheet                           *)
(***************************************************************************)
RECURSIVE FinalHeadersFrom(_, _, _, _)
\* The forEach over indicesToKeep from position i on: headerCounts counts
\* the trimmed headers seen, finalHeaders collects the names given.
FinalHeadersFrom(headers, i, headerCounts, finalHeaders) ==
  IF i > Len(headers) THEN finalHeaders
  ELSE With(trim(headers[i]), LAMBDA originalHeader :
         IF hasOwnProperty(headerCounts, originalHeader)
         THEN FinalHeadersFrom(headers, i + 1,
                ObjSet(headerCounts, originalHeader, ObjGet(headerCounts, originalHeader) + 1),
                Append(finalHeaders,
                       originalHeader \o <<"_">>
                         \o IntToString(ObjGet(headerCounts, originalHeader) + 1)))
         ELSE FinalHeadersFrom(headers, i + 1, ObjSet(headerCounts, originalHeader, 1),
                               Append(finalHeaders, originalHeader)))

RECURSIVE CleanedRowFrom(_, _, _, _)
\* The forEach that builds rowObj: rowObj[finalHeaders[i]] = row[colIndex].
CleanedRowFrom(finalHeaders, cells, i, rowObj) ==
  IF i > Len(finalHeaders) THEN rowObj
  ELSE CleanedRowFrom(finalHeaders, cells, i + 1, ObjSet(rowObj, finalHeaders[i], cells[i]))

(***************************************************************************)
(* Correlation explorer (src/components/ChartsPanel.tsx)                   *)
(***************************************************************************)
TotalScoreStr == <<"T", "o", "t", "a", "l", " ", "S", "c", "o", "r", "e">>

\* getStudentValue without its tests against the name of the total.
getStudentValue_ComponentsOnly(student, key, totalScoreName) ==
  IF hasOwnProperty(student.components, key) THEN ObjGet(student.components, key)
  ELSE Zero

\* getStudentValue(student, key), with the totalScoreName prop.
getStudentValue(student, key, totalScoreName) ==
  IF key = totalScoreName THEN student.totalScore
  ELSE IF hasOwnProperty(student.components, key) THEN ObjGet(student.components, key)
  ELSE IF key = TotalScoreStr THEN student.totalScore
  ELSE Zero

(***************************************************************************)
(* Bounds and inputs                                                       *)
(***************************************************************************)
\* Rows per sheet, component columns per mapping, length of a sequence
\* given to a statistic, length of the sequences given to the correlation.
MaxRows == 2
MaxComponents == 2
MaxLen == 4
MaxPairLen == 3

\* The files uploaded in one session.
MaxLoads == 1

\* The calls of the AI service awaited at one time, those of unmounted
\* ActionPlan instances included.
MaxInFlight == 2

SeqsOver(S, lo, hi) == UNION {[1..n -> S] : n \in lo..hi}

\* The sequences over S of lo..hi distinct elements.
DistinctSeqsOver(S, lo, hi) ==
  {q \in SeqsOver(S, lo, hi) : \A i, j \in 1..Len(q) : i # j => q[i] # q[j]}

Range(q) == {q[i] : i \in 1..Len(q)}

\* Sheet and column names, and the texts of cells.
Sheet9A == <<"9", "A">>
Sheet9B == <<"9", "B">>
KOne == <<"1">>
KName == <<"N", "a", "m", "e">>
KQuiz == <<"Q", "u", "i", "z">>
KNameLower == <<"n", "a", "m", "e">>
KQuizUpper == <<"Q", "U", "I", "Z">>
TAnn == StrCell(<<"A", "n", "n">>)
TBob == StrCell(<<"B", "o", "b">>)
TCy == StrCell(<<"C", "y">>)
TDee == StrCell(<<"D", "e", "e">>)
TBlank == StrCell(<<" ">>)
TJunk == StrCell(<<"j", "u", "n", "k">>)
T85 == StrCell(<<"8", "5">>)
T72p5 == StrCell(<<"7", "2", ".", "5">>)
TInfinity == StrCell(InfinityStr)
TMinusInfinity == StrCell(<<"-">> \o InfinityStr)

\* A row of a sheet with the columns 1, Name and Quiz (JavaScript lists
\* the index key 1 first).
RowA(c1, cName, cQuiz) ==
  <<[key |-> KOne, val |-> c1], [key |-> KName, val |-> cName], [key |-> KQuiz, val |-> cQuiz]>>

\* A row of a sheet with the columns name and QUIZ.
RowB(cName, cQuiz) ==
  <<[key |-> KNameLower, val |-> cName], [key |-> KQuizUpper, val |-> cQuiz]>>

PoolA ==
  {RowA(NumCell(40), TAnn, T85),
   RowA(TJunk, TBlank, Null),
   RowA(TInfinity, TBob, TMinusInfinity),
   RowA(TMinusInfinity, NumCell(7), Null),
   RowA(NumCell(60), TCy, StrCell(<<"6", "0">>))}

\* The rows of sheet 9B when the workbook holds it.
RowsB == <<RowB(TDee, NumCell(65)), RowB(Null, T72p5)>>

\* The rows of sheet 9B when its name column holds no data and is
\* dropped by FileUpload: no row of the sheet has a name.
RowsBNameless == <<<<[key |-> KQuizUpper, val |-> T72p5]>>>>

\* What FileUpload.handleFile keeps: a cell counts as data when it is not
\* null and not blank; every kept row and every kept column holds data.
HasData(c) == c.t # "null" /\ c.t # "undefined" /\ trim(String(c)) # <<>>

ValidSheet(rows) ==
  /\ Len(rows) > 0
  /\ \A r \in 1..Len(rows) : \E c \in 1..Len(rows[r]) : HasData(rows[r][c].val)
  /\ \A c \in 1..Len(rows[1]) : \E r \in 1..Len(rows) : HasData(rows[r][c].val)

SheetsOver(pool) == {rows \in SeqsOver(pool, 1, MaxRows) : ValidSheet(rows)}

\* The workbooks a file load can deliver: no sheet, sheet 9A, the sheets
\* 9A and 9B, or one student in 9A and a sheet 9B without names.
Workbooks ==
  {<<>>}
    \cup {ObjSet(<<>>, Sheet9A, a) : a \in SheetsOver(PoolA)}
    \cup {ObjSet(ObjSet(<<>>, Sheet9A, a), Sheet9B, RowsB) : a \in SheetsOver(PoolA)}
    \cup {ObjSet(ObjSet(<<>>, Sheet9A, <<RowA(NumCell(40), TAnn, T85)>>), Sheet9B, RowsBNameless)}

\* The columns offered as the name column: the headers that read "name"
\* up to case (the one DataMapper detects), else every header.
NameChoices(hs) ==
  IF \E h \in Range(hs) : toLowerCase(h) = KNameLower
  THEN {h \in Range(hs) : toLowerCase(h) = KNameLower}
  ELSE Range(hs)

\* The mappings DataMapper is given to confirm over the headers hs: a name
\* column, no class column or the first header, one to MaxComponents
\* distinct component columns, an optional total column (<<>> stands for
\* null and for '', which the code does not tell apart).
Mappings(hs) ==
  {[nameCol |-> n, classCol |-> c, componentCols |-> cs, totalCol |-> t] :
     n \in NameChoices(hs), c \in {<<>>} \cup {hs[i] : i \in {1} \cap DOMAIN hs},
     cs \in DistinctSeqsOver(Range(hs), 1, MaxComponents),
     t \in {<<>>} \cup Range(hs)}

NoMapping == [nameCol |-> <<>>, classCol |-> <<>>, componentCols |-> <<>>, totalCol |-> <<>>]

\* The numbers given to the statistics and the percentages given to the
\* classifier.
StatValues == {parseFloat(<<"0", ".", "1">>), FromInt(1), FromInt(2), PosInf, NaN}

Percentages ==
  {FromInt(i) : i \in -5..105}
    \cup {Div(FromInt(2 * i + 1), FromInt(2)) : i \in 45..95}
    \cup {NaN, PosInf, NegInf}

(***************************************************************************)
(* State                                                                   *)
(***************************************************************************)
VARIABLES
  step,               \* App: the pipeline stage, 1..4
  rawSheetData,       \* App: the loaded sheets, sheet name -> rows
  selectedSheetNames, \* App: the confirmed sheet selection
  allStudents,        \* App: the normalized records
  sheetFilter,        \* App: 'All' or a sheet name
  totalColName,       \* App: the label of the total
  analysis,           \* App: the memoized analysis (<<>> for null)
  selected,           \* SheetSelector: the sheets ticked
  mapping,            \* the mapping given to onMappingConfirmed for the shown analysis
  allRows,            \* the rows onMappingConfirmed merged for the shown analysis
  loads,              \* the files picked so far
  reading,            \* the workbooks FileReader has not delivered yet
  activeTab,          \* App: the tab shown at step 4
  apiKey,             \* whether process.env.API_KEY is configured
  plan,               \* ActionPlan: <<>> for null, else <<the parsed response>>
  loading,            \* ActionPlan: a generation is under way
  error,              \* ActionPlan: <<>> for null, else <<the message>>
  pending,            \* the request in flight for the mounted ActionPlan, if any
  planSource,         \* ActionPlan: the request the plan in state answers
  stale,              \* the requests in flight of ActionPlan instances since unmounted
  numbers,            \* statistics: the sequence given
  others,             \* statistics: the second sequence of a correlation
  percentage,         \* classifier: the percentage given
  lookupRow,          \* getSmartValue: the row given
  lookupCol,          \* getSmartValue: the column name given
  keptHeaders,        \* FileUpload: the header cells of the kept columns
  outcome,            \* statistics, classifier and lookup: what was returned
  pxPerMM,            \* exportToPDF: canvas.width / imgWidth
  canvasHeight,       \* exportToPDF: canvas.height of the block (px)
  currentY,           \* exportToPDF: the vertical position on the page (px)
  currentSliceY,      \* exportToPDF: the position in the source canvas (px)
  remainingCanvasHeight, \* exportToPDF: the height left to print (px)
  slices,             \* exportToPDF: the slices added, [y, h] in px
  addedPages,         \* exportToPDF: the calls of pdf.addPage for the block
  breaksInRow,        \* exportToPDF: iterations in a row that only added a page
  exportPc,           \* exportToPDF: where the handling of the block stands
  scatterX,           \* ChartsPanel: the selector of the x axis
  scatterY,           \* ChartsPanel: the selector of the y axis
  mapperHeaders,      \* DataMapper: the headers prop
  mapperSampleRow,    \* DataMapper: the sampleRow prop
  draftMapping,       \* DataMapper: the mapping in state
  mapperPc            \* DataMapper: mounted, ready after the effect, confirmed

appVars == <<step, rawSheetData, selectedSheetNames, allStudents, sheetFilter,
             totalColName, analysis, selected, mapping, allRows, loads, reading>>

\* The arguments given to the functions checked on their own.
argVars == <<numbers, others, percentage, lookupRow, lookupCol, keptHeaders>>

statVars == <<argVars, outcome>>

exportVars == <<pxPerMM, canvasHeight, currentY, currentSliceY, remainingCanvasHeight,
                slices, addedPages, breaksInRow, exportPc>>

chartVars == <<scatterX, scatterY>>

mapperVars == <<mapperHeaders, mapperSampleRow, draftMapping, mapperPc>>

\* The state of the parts followed on their own.
toolVars == <<exportVars, chartVars, mapperVars>>

\* The state of the mounted ActionPlan and of its call.
planVars == <<plan, loading, error, pending, planSource, stale>>

vars == <<appVars, statVars, activeTab, apiKey, planVars, toolVars>>

\* The App component as constructed.
AppInit ==
  /\ step = 1
  /\ rawSheetData = <<>>
  /\ selectedSheetNames = <<>>
  /\ allStudents = <<>>
  /\ sheetFilter = AllStr
  /\ totalColName = OverallScoreStr
  /\ analysis = <<>>
  /\ selected = <<>>
  /\ mapping = NoMapping
  /\ allRows = <<>>
  /\ loads = 0
  /\ reading = <<>>

NoOutcome == [op |-> "none"]

StatIdle ==
  /\ numbers = <<>>
  /\ others = <<>>
  /\ percentage = Zero
  /\ lookupRow = <<>>
  /\ lookupCol = <<>>
  /\ keptHeaders = <<>>
  /\ outcome = NoOutcome

\* No export under way.
ExportIdle ==
  /\ pxPerMM = 1
  /\ canvasHeight = 0
  /\ currentY = 0
  /\ currentSliceY = 0
  /\ remainingCanvasHeight = 0
  /\ slices = <<>>
  /\ addedPages = 0
  /\ breaksInRow = 0
  /\ exportPc = "none"

\* The correlation explorer not followed.
ChartIdle ==
  /\ scatterX = <<>>
  /\ scatterY = <<>>

\* DataMapper not followed.
MapperIdle ==
  /\ mapperHeaders = <<>>
  /\ mapperSampleRow = <<>>
  /\ draftMapping = NoMapping
  /\ mapperPc = "none"

ToolIdle == ExportIdle /\ ChartIdle /\ MapperIdle

\* ActionPlan as mounted: useState(null), useState(false), useState(null).
PlanIdle ==
  /\ plan = <<>>
  /\ loading = FALSE
  /\ error = <<>>
  /\ pending = <<>>
  /\ planSource = <<>>
  /\ stale = {}

\* The pipeline is followed in a build with the API key configured; the
\* key is read by ActionPlan only.
Init == AppInit /\ StatIdle /\ activeTab = "dashboard" /\ apiKey = TRUE /\ PlanIdle /\ ToolIdle

(***************************************************************************)
(* App: the handlers                                                       *)
(***************************************************************************)
\* The render of step 3 reads rawSheetData[selectedSheetNames[0]][0]
\* (getSampleRow); it throws when the sheet is not in the workbook, and
\* nothing is shown from then on.
RenderDefined ==
  step = 3 /\ Len(selectedSheetNames) > 0
    => hasOwnProperty(rawSheetData, selectedSheetNames[1])

\* FileUpload.handleFile: a file is dropped or browsed at step 1 and a
\* FileReader starts on it.  Nothing keeps a second file from being
\* picked while the first is read.
handleFile(data, bound) ==
  /\ step = 1
  /\ loads < bound
  /\ loads' = loads + 1
  /\ reading' = Append(reading, data)
  /\ UNCHANGED <<statVars, toolVars>>
  /\ UNCHANGED <<activeTab, apiKey, planVars>>
  /\ UNCHANGED <<step, rawSheetData, selectedSheetNames, allStudents, sheetFilter,
                 totalColName, analysis, selected, mapping, allRows>>

\* reader.onload of the i-th file being read: onDataLoaded(data), at
\* whatever step the App is.  A SheetSelector that mounts starts from
\* useState([]); its effect, which runs after every render of App, ticks
\* every sheet when there is one.  The result screen unmounts.
onDataLoaded(i) ==
  /\ i \in 1..Len(reading)
  /\ RenderDefined
  /\ reading' = SubSeq(reading, 1, i - 1) \o SubSeq(reading, i + 1, Len(reading))
  /\ rawSheetData' = reading[i]
  /\ step' = 2
  /\ selected' = IF Len(reading[i]) > 0 THEN ObjectKeys(reading[i])
                 ELSE IF step = 2 THEN selected
                 ELSE <<>>
  /\ plan' = IF step = 4 THEN <<>> ELSE plan
  /\ loading' = IF step = 4 THEN FALSE ELSE loading
  /\ error' = IF step = 4 THEN <<>> ELSE error
  /\ pending' = IF step = 4 THEN <<>> ELSE pending
  /\ planSource' = IF step = 4 THEN <<>> ELSE planSource
  /\ stale' = IF step = 4 THEN stale \cup Range(pending) ELSE stale
  /\ UNCHANGED <<statVars, toolVars>>
  /\ UNCHANGED <<activeTab, apiKey>>
  /\ UNCHANGED <<loads, selectedSheetNames, allStudents, sheetFilter, totalColName,
                 analysis, mapping, allRows>>

\* SheetSelector.toggleSheet
toggleSheet(sheet) ==
  /\ step = 2
  /\ selected' = IF sheet \in Range(selected)
                 THEN SelectSeq(selected, LAMBDA s : s # sheet)
                 ELSE Append(selected, sheet)
  /\ UNCHANGED <<statVars, toolVars>>
  /\ UNCHANGED <<activeTab, apiKey, planVars>>
  /\ UNCHANGED <<loads, reading, step, rawSheetData, selectedSheetNames, allStudents, sheetFilter,
                 totalColName, analysis, mapping, allRows>>

handleSelectAll ==
  /\ step = 2
  /\ selected' = ObjectKeys(rawSheetData)
  /\ UNCHANGED <<statVars, toolVars>>
  /\ UNCHANGED <<activeTab, apiKey, planVars>>
  /\ UNCHANGED <<loads, reading, step, rawSheetData, selectedSheetNames, allStudents, sheetFilter,
                 totalColName, analysis, mapping, allRows>>

handleDeselectAll ==
  /\ step = 2
  /\ selected' = <<>>
  /\ UNCHANGED <<statVars, toolVars>>
  /\ UNCHANGED <<activeTab, apiKey, planVars>>
  /\ UNCHANGED <<loads, reading, step, rawSheetData, selectedSheetNames, allStudents, sheetFilter,
                 totalColName, analysis, mapping, allRows>>

\* The Next button of SheetSelector: onSheetsConfirmed(selected).
onSheetsConfirmed ==
  /\ step = 2
  /\ Len(selected) > 0
  /\ selectedSheetNames' = selected
  /\ step' = 3
  /\ selected' = <<>>
  /\ UNCHANGED <<statVars, toolVars>>
  /\ UNCHANGED <<activeTab, apiKey, planVars>>
  /\ UNCHANGED <<loads, reading, rawSheetData, allStudents, sheetFilter, totalColName, analysis,
                 mapping, allRows>>

\* The Back button of SheetSelector, which unmounts.
BackToUpload ==
  /\ step = 2
  /\ step' = 1
  /\ selected' = <<>>
  /\ UNCHANGED <<statVars, toolVars>>
  /\ UNCHANGED <<activeTab, apiKey, planVars>>
  /\ UNCHANGED <<loads, reading, rawSheetData, selectedSheetNames, allStudents, sheetFilter,
                 totalColName, analysis, mapping, allRows>>

\* The Back button of DataMapper; SheetSelector mounts again.
BackToSheets ==
  /\ step = 3
  /\ RenderDefined
  /\ step' = 2
  /\ selected' = ObjectKeys(rawSheetData)
  /\ UNCHANGED <<statVars, toolVars>>
  /\ UNCHANGED <<activeTab, apiKey, planVars>>
  /\ UNCHANGED <<loads, reading, rawSheetData, selectedSheetNames, allStudents, sheetFilter,
                 totalColName, analysis, mapping, allRows>>

\* onMappingConfirmed(m), and the render that follows it.
MappingConfirmed(m) ==
  /\ step = 3
  /\ RenderDefined
  /\ totalColName' = IF m.totalCol # <<>> THEN m.totalCol ELSE OverallScoreStr
  /\ allRows' = MergeSheets(rawSheetData, selectedSheetNames, 1, <<>>)
  /\ allStudents' = ProcessStudents(allRows', m)
  /\ sheetFilter' = AllStr
  /\ analysis' = AnalysisOf(FilteredStudents(allStudents', sheetFilter'))
  /\ step' = 4
  /\ mapping' = m
  /\ UNCHANGED statVars
  /\ UNCHANGED <<activeTab, apiKey, planVars>>
  /\ UNCHANGED <<loads, reading, rawSheetData, selectedSheetNames, selected>>

\* The confirm button of DataMapper, for a mapping m it can hold.
onMappingConfirmed(m) ==
  /\ MappingConfirmed(m)
  /\ UNCHANGED toolVars

\* The sheet filter selects, shown at step 4 when several sheets are
\* selected.  ActionPlan is keyed by sheetFilter: another filter unmounts
\* it and mounts a new one, which no longer hears from the old call.
setSheetFilter(f) ==
  /\ step = 4
  /\ Len(selectedSheetNames) > 1
  /\ sheetFilter' = f
  /\ analysis' = AnalysisOf(FilteredStudents(allStudents, f))
  /\ plan' = IF f # sheetFilter THEN <<>> ELSE plan
  /\ loading' = IF f # sheetFilter THEN FALSE ELSE loading
  /\ error' = IF f # sheetFilter THEN <<>> ELSE error
  /\ pending' = IF f # sheetFilter THEN <<>> ELSE pending
  /\ planSource' = IF f # sheetFilter THEN <<>> ELSE planSource
  /\ stale' = IF f # sheetFilter THEN stale \cup Range(pending) ELSE stale
  /\ UNCHANGED <<statVars, toolVars>>
  /\ UNCHANGED <<activeTab, apiKey>>
  /\ UNCHANGED <<loads, reading, step, rawSheetData, selectedSheetNames, allStudents, totalColName,
                 selected, mapping, allRows>>

\* The New Analysis button.
NewAnalysis ==
  /\ step = 4
  /\ step' = 1
  /\ allStudents' = <<>>
  /\ selectedSheetNames' = <<>>
  /\ analysis' = AnalysisOf(FilteredStudents(<<>>, sheetFilter))
  /\ mapping' = NoMapping
  /\ allRows' = <<>>
  /\ plan' = <<>>
  /\ loading' = FALSE
  /\ error' = <<>>
  /\ pending' = <<>>
  /\ planSource' = <<>>
  /\ stale' = stale \cup Range(pending)
  /\ UNCHANGED <<statVars, toolVars>>
  /\ UNCHANGED <<activeTab, apiKey>>
  /\ UNCHANGED <<loads, reading, rawSheetData, sheetFilter, totalColName, selected>>

Next ==
  \/ \E data \in Workbooks : handleFile(data, MaxLoads)
  \/ \E i \in 1..Len(reading) : onDataLoaded(i)
  \/ \E sheet \in Range(ObjectKeys(rawSheetData)) : toggleSheet(sheet)
  \/ handleSelectAll
  \/ handleDeselectAll
  \/ onSheetsConfirmed
  \/ BackToUpload
  \/ BackToSheets
  \/ \E m \in Mappings(getHeaders(rawSheetData, selectedSheetNames)) : onMappingConfirmed(m)
  \/ \E f \in {AllStr} \cup Range(selectedSheetNames) : setSheetFilter(f)
  \/ NewAnalysis

Spec == Init /\ [][Next]_vars

(***************************************************************************)
(* The result screen: the tabs and ActionPlan (src/unnamed/part_000)       *)
(***************************************************************************)
\* ActionPlan is rendered at step 4, for a non-null analysis, on the AI tab.
ActionPlanMounted == step = 4 /\ analysis # <<>> /\ activeTab = "ai"

ApiKeyMissingMessage == "API Key not configured in environment."
GenerationFailedMessage == "Failed to generate AI plan. Please try again."

\* What JSON.parse can return to setPlan: null, {} (also the parse of the
\* '{}' that stands in for an empty text) or an object with the five plans.
FullPlan ==
  [highAchieverPlan |-> "h", averageStudentPlan |-> "a", atRiskPlan |-> "r",
   teacherActions |-> "t", hodInsights |-> "i"]

EmptyPlan == [k \in {} |-> ""]

ParsedResponses == {<<>>, <<EmptyPlan>>, <<FullPlan>>}

\* Which of its three returns ActionPlan renders.
PlanView ==
  IF plan = <<>> /\ ~loading THEN "start"
  ELSE IF loading THEN "loading"
  ELSE "plan"

\* A tab button.  Leaving or entering the AI tab unmounts or mounts
\* ActionPlan.
setActiveTab(t) ==
  /\ step = 4
  /\ analysis # <<>>
  /\ t # activeTab
  /\ activeTab' = t
  /\ plan' = <<>>
  /\ loading' = FALSE
  /\ error' = <<>>
  /\ pending' = <<>>
  /\ planSource' = <<>>
  /\ stale' = stale \cup Range(pending)
  /\ UNCHANGED <<statVars, toolVars>>
  /\ UNCHANGED <<appVars, apiKey>>

\* The Generate Strategy and Regenerate buttons: generatePlan up to its
\* await, with the request generateEducationalActionPlan sends.  The
\* loading view has no button.
generatePlan ==
  /\ ActionPlanMounted
  /\ PlanView \in {"start", "plan"}
  /\ Cardinality(stale) + Len(pending) < MaxInFlight
  /\ IF ~apiKey
     THEN /\ error' = <<ApiKeyMissingMessage>>
          /\ UNCHANGED <<plan, loading, pending>>
     ELSE /\ loading' = TRUE
          /\ error' = <<>>
          /\ pending' = Append(pending, GenerateContentRequest(analysis[1]))
          /\ UNCHANGED plan
  /\ UNCHANGED <<statVars, toolVars>>
  /\ UNCHANGED <<appVars, activeTab, apiKey, planSource, stale>>

\* The call returns a text JSON.parse accepts: setPlan(result), then the
\* finally block.
planResolved(result) ==
  /\ ActionPlanMounted
  /\ pending # <<>>
  /\ plan' = result
  /\ planSource' = <<Head(pending)>>
  /\ loading' = FALSE
  /\ pending' = Tail(pending)
  /\ UNCHANGED <<statVars, toolVars>>
  /\ UNCHANGED <<appVars, activeTab, apiKey, error, stale>>

\* The call rejects or JSON.parse throws: generateEducationalActionPlan
\* throws, the catch block of generatePlan runs, then the finally block.
planFailed ==
  /\ ActionPlanMounted
  /\ pending # <<>>
  /\ error' = <<GenerationFailedMessage>>
  /\ loading' = FALSE
  /\ pending' = Tail(pending)
  /\ UNCHANGED <<statVars, toolVars>>
  /\ UNCHANGED <<appVars, activeTab, apiKey, plan, planSource, stale>>

\* setPlan, setError and setLoading called by the generatePlan of an
\* instance that has been unmounted: the state of the instance now shown,
\* if any, is another one.
UnmountedSetState_Shown(current, value) == value

UnmountedSetState(current, value) == current

\* The call of an unmounted instance returns: its setPlan and setLoading.
staleResolved(request, result) ==
  /\ request \in stale
  /\ stale' = stale \ {request}
  /\ plan' = UnmountedSetState(plan, result)
  /\ planSource' = UnmountedSetState(planSource, <<request>>)
  /\ loading' = UnmountedSetState(loading, FALSE)
  /\ UNCHANGED <<statVars, toolVars>>
  /\ UNCHANGED <<appVars, activeTab, apiKey, error, pending>>

\* The call of an unmounted instance fails: its setError and setLoading.
staleFailed(request) ==
  /\ request \in stale
  /\ stale' = stale \ {request}
  /\ error' = UnmountedSetState(error, <<GenerationFailedMessage>>)
  /\ loading' = UnmountedSetState(loading, FALSE)
  /\ UNCHANGED <<statVars, toolVars>>
  /\ UNCHANGED <<appVars, activeTab, apiKey, plan, planSource, pending>>

\* The mappings the result screen is entered with: no class column and no
\* total column.
ResultMappings(hs) == {m \in Mappings(hs) : m.classCol = <<>> /\ m.totalCol = <<>>}

\* The workbooks the result screen is entered with: two sheets, the rows
\* of 9A being those of Ann, Bob and Cy.
ResultWorkbooks ==
  {data \in Workbooks :
     /\ Len(data) = 2
     /\ Range(ObjGet(data, Sheet9A)) \subseteq
          {RowA(NumCell(40), TAnn, T85), RowA(TInfinity, TBob, TMinusInfinity),
           RowA(NumCell(60), TCy, StrCell(<<"6", "0">>))}}

\* The state onMappingConfirmed leaves for a workbook of two sheets, both
\* selected, in a build with or without an API key.
ResultInit ==
  /\ StatIdle
  /\ PlanIdle
  /\ ToolIdle
  /\ activeTab = "dashboard"
  /\ apiKey \in BOOLEAN
  /\ step = 4
  /\ loads = 1
  /\ reading = <<>>
  /\ selected = <<>>
  /\ sheetFilter = AllStr
  /\ totalColName = OverallScoreStr
  /\ rawSheetData \in ResultWorkbooks
  /\ selectedSheetNames = ObjectKeys(rawSheetData)
  /\ mapping \in ResultMappings(getHeaders(rawSheetData, selectedSheetNames))
  /\ allRows = MergeSheets(rawSheetData, selectedSheetNames, 1, <<>>)
  /\ allStudents = ProcessStudents(allRows, mapping)
  /\ analysis = AnalysisOf(FilteredStudents(allStudents, sheetFilter))

ResultNext ==
  \/ \E t \in {"dashboard", "students", "ai"} : setActiveTab(t)
  \/ \E f \in {AllStr} \cup Range(selectedSheetNames) : setSheetFilter(f)
  \/ generatePlan
  \/ \E result \in ParsedResponses : planResolved(result)
  \/ planFailed
  \/ \E request \in stale, result \in ParsedResponses : staleResolved(request, result)
  \/ \E request \in stale : staleFailed(request)
  \/ NewAnalysis

SpecPlan == ResultInit /\ [][ResultNext]_vars

(***************************************************************************)
(* The statistics and the classifier applied to given inputs               *)
(***************************************************************************)
StatInit ==
  /\ AppInit
  /\ activeTab = "dashboard"
  /\ apiKey = TRUE
  /\ PlanIdle
  /\ ToolIdle
  /\ outcome = NoOutcome
  /\ lookupRow = <<>>
  /\ lookupCol = <<>>
  /\ keptHeaders = <<>>
  /\ \/ /\ numbers \in SeqsOver(StatValues, 0, MaxLen)
        /\ others = <<>>
        /\ percentage = Zero
     \/ /\ numbers \in SeqsOver(StatValues, 0, MaxPairLen)
        /\ others \in SeqsOver(StatValues, 0, MaxPairLen)
        /\ percentage = Zero
     \/ /\ numbers = <<>>
        /\ others = <<>>
        /\ percentage \in Percentages

Classify ==
  /\ outcome = NoOutcome
  /\ outcome' = [op |-> "classify",
                 group |-> determineGroup(percentage),
                 grade |-> determineGrade(percentage)]
  /\ UNCHANGED argVars
  /\ UNCHANGED <<appVars, toolVars>>
  /\ UNCHANGED <<activeTab, apiKey, planVars>>

Describe ==
  /\ outcome = NoOutcome
  /\ outcome' = [op |-> "describe",
                 mean |-> calculateMean(numbers),
                 median |-> calculateMedian(numbers),
                 mode |-> calculateMode(numbers),
                 stdDev |-> calculateStdDev(numbers, calculateMean(numbers)),
                 min |-> calculateMin(numbers),
                 max |-> calculateMax(numbers)]
  /\ UNCHANGED argVars
  /\ UNCHANGED <<appVars, toolVars>>
  /\ UNCHANGED <<activeTab, apiKey, planVars>>

Correlate ==
  /\ outcome = NoOutcome
  /\ outcome' = [op |-> "correlate", r |-> calculateCorrelation(numbers, others)]
  /\ UNCHANGED argVars
  /\ UNCHANGED <<appVars, toolVars>>
  /\ UNCHANGED <<activeTab, apiKey, planVars>>

StatNext == Classify \/ Describe \/ Correlate

SpecStats == StatInit /\ [][StatNext]_vars

(***************************************************************************)
(* getSmartValue applied to a row and a column name                        *)
(***************************************************************************)
\* Headers as FileUpload keeps them (trimmed, not empty), three of them
\* equal up to case.
KNameUpper == <<"N", "A", "M", "E">>
KQuizLower == <<"q", "u", "i", "z">>
KTotal == <<"T", "o", "t", "a", "l">>

LookupKeys == {KName, KNameLower, KNameUpper, KQuiz, KOne}

\* The cells of a row, by the order in which the keys were written.
LookupCells == <<NumCell(1), Null, StrCell(<<"x">>)>>

RECURSIVE RowOf(_, _, _)
\* The row built by writing keys[i..] with the cells of LookupCells.
RowOf(keys, i, acc) ==
  IF i > Len(keys) THEN acc
  ELSE RowOf(keys, i + 1, ObjSet(acc, keys[i], LookupCells[i]))

LookupRows == {RowOf(keys, 1, <<>>) : keys \in DistinctSeqsOver(LookupKeys, 0, MaxPairLen)}

\* The column names of a mapping: headers of the first selected sheet,
\* which other sheets may spell differently or lack.
LookupCols == LookupKeys \cup {KQuizLower, KQuizUpper, KTotal}

LookupInit ==
  /\ AppInit
  /\ activeTab = "dashboard"
  /\ apiKey = TRUE
  /\ PlanIdle
  /\ ToolIdle
  /\ numbers = <<>>
  /\ others = <<>>
  /\ percentage = Zero
  /\ outcome = NoOutcome
  /\ lookupRow \in LookupRows
  /\ lookupCol \in LookupCols
  /\ keptHeaders = <<>>

\* getSmartValue(row, colName); the function assigns to nothing, the row
\* after the call is the row given.
Lookup ==
  /\ outcome = NoOutcome
  /\ outcome' = [op |-> "lookup",
                 value |-> getSmartValue(lookupRow, lookupCol),
                 row |-> lookupRow]
  /\ UNCHANGED argVars
  /\ UNCHANGED <<appVars, toolVars>>
  /\ UNCHANGED <<activeTab, apiKey, planVars>>

LookupNext == Lookup

SpecLookup == LookupInit /\ [][LookupNext]_vars

(***************************************************************************)
(* FileUpload.handleFile applied to the kept headers of a sheet            *)
(***************************************************************************)
MaxHeaders == 4

HA == <<"A">>
HASpace == <<"A", " ">>
HA2 == <<"A", "_", "2">>
HB == <<"B">>

\* Header cells of kept columns: not blank; equal ones, ones equal after
\* trimming, and one that reads like a renamed duplicate.
HeaderLists == SeqsOver({HA, HASpace, HA2, HB}, 1, MaxHeaders)

HeadersInit ==
  /\ AppInit
  /\ activeTab = "dashboard"
  /\ apiKey = TRUE
  /\ PlanIdle
  /\ ToolIdle
  /\ numbers = <<>>
  /\ others = <<>>
  /\ percentage = Zero
  /\ lookupRow = <<>>
  /\ lookupCol = <<>>
  /\ outcome = NoOutcome
  /\ keptHeaders \in HeaderLists

\* The duplicate-header handling and the construction of one row whose
\* cell in the i-th kept column is the number i.
CleanSheet ==
  /\ outcome = NoOutcome
  /\ outcome' = [op |-> "headers",
                 finalHeaders |-> FinalHeadersFrom(keptHeaders, 1, <<>>, <<>>),
                 rowObj |-> CleanedRowFrom(FinalHeadersFrom(keptHeaders, 1, <<>>, <<>>),
                                           [i \in 1..Len(keptHeaders) |-> NumCell(i)],
                                           1, <<>>)]
  /\ UNCHANGED argVars
  /\ UNCHANGED <<appVars, toolVars>>
  /\ UNCHANGED <<activeTab, apiKey, planVars>>

HeadersNext == CleanSheet

SpecHeaders == HeadersInit /\ [][HeadersNext]_vars

(***************************************************************************)
(* The result screen entered for given inputs                              *)
(***************************************************************************)

\* The App state onMappingConfirmed(m) leaves for the workbook data with
\* every sheet selected, the sheet filter then being set to f.
AnalyzedState(data, m, f) ==
  /\ step = 4
  /\ loads = 1
  /\ reading = <<>>
  /\ selected = <<>>
  /\ rawSheetData = data
  /\ selectedSheetNames = ObjectKeys(data)
  /\ mapping = m
  /\ totalColName = IF m.totalCol # <<>> THEN m.totalCol ELSE OverallScoreStr
  /\ allRows = MergeSheets(data, ObjectKeys(data), 1, <<>>)
  /\ allStudents = ProcessStudents(allRows, m)
  /\ sheetFilter = f
  /\ analysis = AnalysisOf(FilteredStudents(allStudents, f))

(***************************************************************************)
(* exportToPDF: the placement of one block (src/services/exportUtils.ts)   *)
(*                                                                         *)
(* Lengths are in canvas pixels: a length of the code in millimetres is    *)
(* the same length times pxPerMM.  pxPerMM is a power of two here, so the  *)
(* code's divisions and products by it are exact in binary floating point. *)
(***************************************************************************)

pdfHeight == 297
margin == 15
bottomMargin == 20
contentHeight == pdfHeight - margin - bottomMargin

\* The canvas widths over the image width of 180 mm.
ExportScales == {1, 4}

\* The positions (mm) at which a block can start: the top margin, below a
\* logo, below an earlier block (at most 5 mm past the footer margin).
StartsMM == (15 .. 26) \cup {40, 100} \cup (144 .. 150) \cup (270 .. 282)

\* The heights (mm) of a block, less the pixels added by ExtraPx.
HeightsMM == {1, 4, 6, 12, 130, 131, 132, 255, 261, 262, 263, 267, 272, 273,
              300, 524, 530}

ExtraPx == {0, 10, 11}

MinF(a, b) == IF a < b THEN a ELSE b

\* const currentSpaceMM = (currentY === margin) ? contentHeight : (277 - currentY),
\* times pxPerMM.
availableHeightPx(y, k) ==
  IF y = margin * k THEN contentHeight * k ELSE (pdfHeight - bottomMargin) * k - y

\* The condition of the page break that emits nothing.
ForcesNewPage_Never(sliceHeightPx, y, remaining, k) == FALSE

ForcesNewPage(sliceHeightPx, y, remaining, k) ==
  /\ sliceHeightPx < 5 * k
  /\ y # margin * k
  /\ remaining > sliceHeightPx

\* The export button is on the result screen, here the one of a workbook
\* with Ann in sheet 9A, mapped by name and quiz.
ExportInit ==
  /\ StatIdle /\ activeTab = "dashboard" /\ apiKey = TRUE /\ PlanIdle
  /\ ChartIdle /\ MapperIdle
  /\ AnalyzedState(ObjSet(<<>>, Sheet9A, <<RowA(NumCell(40), TAnn, T85)>>),
                   [nameCol |-> KName, classCol |-> <<>>, componentCols |-> <<KQuiz>>,
                    totalCol |-> <<>>],
                   AllStr)
  /\ pxPerMM \in ExportScales
  /\ \E h \in HeightsMM, d \in ExtraPx : canvasHeight = h * pxPerMM + d
  /\ \E y \in StartsMM : currentY = y * pxPerMM
  /\ currentSliceY = 0
  /\ remainingCanvasHeight = 0
  /\ slices = <<>>
  /\ addedPages = 0
  /\ breaksInRow = 0
  /\ exportPc = "block"

\* The three cases of the loop over the children, for one child.
PlaceBlock ==
  /\ exportPc = "block"
  /\ IF canvasHeight <= (pdfHeight - bottomMargin) * pxPerMM - currentY
       THEN /\ currentY' = currentY + canvasHeight + 5 * pxPerMM
            /\ addedPages' = addedPages
            /\ exportPc' = "placed"
            /\ UNCHANGED <<currentSliceY, remainingCanvasHeight>>
       ELSE IF /\ canvasHeight <= contentHeight * pxPerMM
               /\ 2 * canvasHeight < contentHeight * pxPerMM
         THEN /\ addedPages' = addedPages + 1
              /\ currentY' = margin * pxPerMM + canvasHeight + 5 * pxPerMM
              /\ exportPc' = "placed"
              /\ UNCHANGED <<currentSliceY, remainingCanvasHeight>>
         ELSE /\ currentSliceY' = 0
              /\ remainingCanvasHeight' = canvasHeight
              /\ exportPc' = "loop"
              /\ UNCHANGED <<currentY, addedPages>>
  /\ UNCHANGED <<pxPerMM, canvasHeight, slices, breaksInRow>>
  /\ UNCHANGED <<appVars, statVars, activeTab, apiKey, planVars, chartVars, mapperVars>>

\* One iteration of while (remainingCanvasHeight > 0), a drawing context
\* being obtained.
ExportSlice ==
  /\ exportPc = "loop"
  /\ remainingCanvasHeight > 0
  /\ With(MinF(remainingCanvasHeight, availableHeightPx(currentY, pxPerMM)),
          LAMBDA sliceHeightPx :
            IF ForcesNewPage(sliceHeightPx, currentY, remainingCanvasHeight, pxPerMM)
              THEN /\ addedPages' = addedPages + 1
                   /\ currentY' = margin * pxPerMM
                   /\ breaksInRow' = breaksInRow + 1
                   /\ UNCHANGED <<currentSliceY, remainingCanvasHeight, slices>>
              ELSE /\ slices' = Append(slices, [y |-> currentY, h |-> sliceHeightPx])
                   /\ currentSliceY' = currentSliceY + sliceHeightPx
                   /\ remainingCanvasHeight' = remainingCanvasHeight - sliceHeightPx
                   /\ breaksInRow' = 0
                   /\ IF remainingCanvasHeight - sliceHeightPx > 10
                        THEN /\ addedPages' = addedPages + 1
                             /\ currentY' = margin * pxPerMM
                        ELSE /\ addedPages' = addedPages
                             /\ currentY' = currentY + sliceHeightPx)
  /\ UNCHANGED <<pxPerMM, canvasHeight, exportPc>>
  /\ UNCHANGED <<appVars, statVars, activeTab, apiKey, planVars, chartVars, mapperVars>>

\* The loop is left: currentY += 5.
ExportFinish ==
  /\ exportPc = "loop"
  /\ remainingCanvasHeight <= 0
  /\ currentY' = currentY + 5 * pxPerMM
  /\ exportPc' = "sliced"
  /\ UNCHANGED <<pxPerMM, canvasHeight, currentSliceY, remainingCanvasHeight,
                 slices, addedPages, breaksInRow>>
  /\ UNCHANGED <<appVars, statVars, activeTab, apiKey, planVars, chartVars, mapperVars>>

ExportNext == PlaceBlock \/ ExportSlice \/ ExportFinish

SpecExport == ExportInit /\ [][ExportNext]_vars

\* exportToPDF runs its loop without waiting for anything but the canvas.
SpecExportLive == SpecExport /\ WF_vars(ExportNext)

(***************************************************************************)
(* The pipeline with files picked in quick succession                      *)
(***************************************************************************)

\* The files picked in one session when loads overlap.
MaxRaceLoads == 2

\* A workbook without a usable sheet, one with sheet 9A, one with 9A and 9B.
LoadWorkbooks ==
  {<<>>,
   ObjSet(<<>>, Sheet9A, <<RowA(NumCell(40), TAnn, T85)>>),
   ObjSet(ObjSet(<<>>, Sheet9A, <<RowA(NumCell(40), TAnn, T85)>>), Sheet9B, RowsB)}

\* The mappings confirmed here: a name column and one component column.
LoadMappings(hs) ==
  {m \in Mappings(hs) : m.classCol = <<>> /\ m.totalCol = <<>> /\ Len(m.componentCols) = 1}

LoadsNext ==
  \/ \E data \in LoadWorkbooks : handleFile(data, MaxRaceLoads)
  \/ \E i \in 1..Len(reading) : onDataLoaded(i)
  \/ \E sheet \in Range(ObjectKeys(rawSheetData)) : toggleSheet(sheet)
  \/ handleSelectAll
  \/ handleDeselectAll
  \/ onSheetsConfirmed
  \/ BackToUpload
  \/ BackToSheets
  \/ \E m \in LoadMappings(getHeaders(rawSheetData, selectedSheetNames)) : onMappingConfirmed(m)
  \/ \E f \in {AllStr} \cup Range(selectedSheetNames) : setSheetFilter(f)
  \/ NewAnalysis

SpecLoads == Init /\ [][LoadsNext]_vars

(***************************************************************************)
(* DataMapper (src/components/ChartsPanel.tsx 700-864)                     *)
(***************************************************************************)

KScore == <<"S", "c", "o", "r", "e">>
KRoll == <<"R", "o", "l", "l">>

\* str.includes(word)
Includes(str, word) ==
  \E i \in 1..(Len(str) - Len(word) + 1) : SubSeq(str, i, i + Len(word) - 1) = word

\* /w1|w2|.../i.test(h), the words being given in lower case.
RegexTest(words, h) == \E w \in words : Includes(toLowerCase(h), w)

NameWords == {<<"n", "a", "m", "e">>, <<"s", "t", "u", "d", "e", "n", "t">>,
              <<"c", "a", "n", "d", "i", "d", "a", "t", "e">>}
ClassWords == {<<"c", "l", "a", "s", "s">>, <<"g", "r", "a", "d", "e">>,
               <<"s", "e", "c", "t", "i", "o", "n">>, <<"b", "a", "t", "c", "h">>}
OverallWords == {<<"o", "v", "e", "r", "a", "l", "l", " ", "s", "c", "o", "r", "e">>,
                 <<"q", "u", "a", "r", "t", "e", "r", " ", "1">>}
TotalWords == {<<"t", "o", "t", "a", "l">>,
               <<"f", "i", "n", "a", "l", " ", "m", "a", "r", "k">>,
               <<"s", "u", "m">>, <<"s", "c", "o", "r", "e">>}
IdWords == {<<"r", "o", "l", "l">>, <<"i", "d">>, <<"p", "h", "o", "n", "e">>}

\* headers.find(h => /.../i.test(h)): <<>> for undefined, else <<h>>.
FindHeader(hs, words) ==
  IF \E i \in 1..Len(hs) : RegexTest(words, hs[i])
  THEN <<hs[CHOOSE i \in 1..Len(hs) :
               /\ RegexTest(words, hs[i])
               /\ \A j \in 1..(i - 1) : ~RegexTest(words, hs[j])]>>
  ELSE <<>>

\* typeof val === 'number' || (typeof val === 'string' && !isNaN(parseFloat(val)))
IsNumericSample(val) ==
  \/ val.t = "number"
  \/ val.t = "string" /\ ~isNaN(parseFloat(val.s))

\* The mapping the effect of DataMapper sets, from the mapping in state.
AutoDetected(hs, row, prev) ==
  With(IF FindHeader(hs, OverallWords) # <<>> THEN FindHeader(hs, OverallWords)
       ELSE FindHeader(hs, TotalWords),
       LAMBDA total :
         With(IF total # <<>> THEN total[1] ELSE prev.totalCol,
              LAMBDA totalCol :
                [nameCol |-> IF FindHeader(hs, NameWords) # <<>> THEN FindHeader(hs, NameWords)[1]
                             ELSE IF Len(hs) > 0 THEN hs[1] ELSE <<>>,
                 classCol |-> IF FindHeader(hs, ClassWords) # <<>>
                              THEN FindHeader(hs, ClassWords)[1] ELSE <<>>,
                 componentCols |->
                   SelectSeq(hs, LAMBDA h : /\ IsNumericSample(ObjGet(row, h))
                                            /\ h # totalCol
                                            /\ ~RegexTest(IdWords, h)),
                 totalCol |-> totalCol]))

\* const isValid = mapping.nameCol && mapping.componentCols.length > 0
isValid(m) == m.nameCol # <<>> /\ Len(m.componentCols) > 0

\* The first rows of the sheet DataMapper is shown for.
MapperSampleRows ==
  {<<[key |-> KName, val |-> TAnn], [key |-> KQuiz, val |-> NumCell(40)],
     [key |-> KScore, val |-> T85]>>,
   <<[key |-> KName, val |-> TAnn], [key |-> KQuiz, val |-> NumCell(40)]>>,
   <<[key |-> KRoll, val |-> NumCell(7)], [key |-> KQuiz, val |-> T72p5],
     [key |-> KScore, val |-> TJunk]>>,
   <<[key |-> KQuiz, val |-> NumCell(40)], [key |-> KScore, val |-> NumCell(60)]>>}

\* DataMapper mounts at step 3 for a workbook of one sheet of one row.
MapperInit ==
  /\ StatIdle /\ PlanIdle /\ ExportIdle /\ ChartIdle
  /\ activeTab = "dashboard"
  /\ apiKey = TRUE
  /\ step = 3
  /\ loads = 1
  /\ reading = <<>>
  /\ selected = <<>>
  /\ sheetFilter = AllStr
  /\ totalColName = OverallScoreStr
  /\ \E row \in MapperSampleRows : rawSheetData = ObjSet(<<>>, Sheet9A, <<row>>)
  /\ selectedSheetNames = <<Sheet9A>>
  /\ mapping = NoMapping
  /\ allRows = <<>>
  /\ allStudents = <<>>
  /\ analysis = <<>>
  /\ mapperHeaders = getHeaders(rawSheetData, selectedSheetNames)
  /\ mapperSampleRow = ObjGet(rawSheetData, Sheet9A)[1]
  /\ draftMapping = NoMapping
  /\ mapperPc = "mounted"

\* The effect that runs once DataMapper is mounted.
autoDetect ==
  /\ mapperPc = "mounted"
  /\ draftMapping' = AutoDetected(mapperHeaders, mapperSampleRow, draftMapping)
  /\ mapperPc' = "ready"
  /\ UNCHANGED <<mapperHeaders, mapperSampleRow>>
  /\ UNCHANGED <<appVars, statVars, activeTab, apiKey, planVars, exportVars, chartVars>>

\* The select of the name column.
setNameCol(h) ==
  /\ mapperPc = "ready"
  /\ draftMapping' = [draftMapping EXCEPT !.nameCol = h]
  /\ UNCHANGED <<mapperHeaders, mapperSampleRow, mapperPc>>
  /\ UNCHANGED <<appVars, statVars, activeTab, apiKey, planVars, exportVars, chartVars>>

\* The select of the class column; '' is the option None.
setClassCol(h) ==
  /\ mapperPc = "ready"
  /\ draftMapping' = [draftMapping EXCEPT !.classCol = h]
  /\ UNCHANGED <<mapperHeaders, mapperSampleRow, mapperPc>>
  /\ UNCHANGED <<appVars, statVars, activeTab, apiKey, planVars, exportVars, chartVars>>

\* The select of the total column: e.target.value || null.
setTotalCol(h) ==
  /\ mapperPc = "ready"
  /\ draftMapping' = [draftMapping EXCEPT !.totalCol = h]
  /\ UNCHANGED <<mapperHeaders, mapperSampleRow, mapperPc>>
  /\ UNCHANGED <<appVars, statVars, activeTab, apiKey, planVars, exportVars, chartVars>>

\* A component button.
handleComponentToggle(header) ==
  /\ mapperPc = "ready"
  /\ draftMapping' =
       [draftMapping EXCEPT !.componentCols =
          IF header \in Range(draftMapping.componentCols)
          THEN SelectSeq(draftMapping.componentCols, LAMBDA c : c # header)
          ELSE Append(draftMapping.componentCols, header)]
  /\ UNCHANGED <<mapperHeaders, mapperSampleRow, mapperPc>>
  /\ UNCHANGED <<appVars, statVars, activeTab, apiKey, planVars, exportVars, chartVars>>

\* The Generate Analysis button: isValid && onConfirm(mapping).
confirmMapping ==
  /\ mapperPc = "ready"
  /\ isValid(draftMapping)
  /\ MappingConfirmed(draftMapping)
  /\ mapperPc' = "confirmed"
  /\ UNCHANGED <<mapperHeaders, mapperSampleRow, draftMapping>>
  /\ UNCHANGED <<exportVars, chartVars>>

MapperNext ==
  \/ autoDetect
  \/ \E h \in Range(mapperHeaders) : setNameCol(h)
  \/ \E h \in {<<>>} \cup Range(mapperHeaders) : setClassCol(h)
  \/ \E h \in {<<>>} \cup Range(mapperHeaders) : setTotalCol(h)
  \/ \E header \in Range(mapperHeaders) : handleComponentToggle(header)
  \/ confirmMapping

SpecMapper == MapperInit /\ [][MapperNext]_vars

(***************************************************************************)
(* The correlation explorer of ChartsPanel                                 *)
(***************************************************************************)

\* A workbook of two sheets with three named students, and one of a single
\* sheet with a column called Total Score.
ChartWorkbooks ==
  {ObjSet(ObjSet(<<>>, Sheet9A, <<RowA(NumCell(40), TAnn, T85),
                                  RowA(NumCell(60), TCy, StrCell(<<"6", "0">>))>>),
          Sheet9B, RowsB),
   ObjSet(<<>>, Sheet9A,
          <<<<[key |-> KName, val |-> TAnn], [key |-> KQuiz, val |-> NumCell(40)],
              [key |-> TotalScoreStr, val |-> T85]>>,
            <<[key |-> KName, val |-> TBob], [key |-> KQuiz, val |-> NumCell(60)],
              [key |-> TotalScoreStr, val |-> T72p5]>>>>)}

\* The mappings the result screen is entered with here: no class column.
ChartMappings(hs) == {m \in Mappings(hs) : m.classCol = <<>>}

\* ChartsPanel is rendered at step 4, for a non-null analysis, on the
\* dashboard tab.
ChartsPanelMounted == step = 4 /\ analysis # <<>> /\ activeTab = "dashboard"

\* const componentKeys = analysis.componentStats.map(c => c.name)
componentKeys ==
  [i \in 1..Len(analysis[1].result.componentStats) |->
     analysis[1].result.componentStats[i].name]

\* const validKeys = [totalScoreName, ...componentKeys]
validKeys == <<totalColName>> \o componentKeys

\* scatterX && validKeys.includes(scatterX)
IsValidAxis(key) == key # <<>> /\ key \in Range(validKeys)

\* The memo scatterData.
scatterData ==
  [i \in 1..Len(analysis[1].students) |->
     [name |-> analysis[1].students[i].name,
      x |-> getStudentValue(analysis[1].students[i], scatterX, totalColName),
      y |-> getStudentValue(analysis[1].students[i], scatterY, totalColName),
      group |-> analysis[1].students[i].group]]

\* The memo correlationValue.
correlationValue ==
  calculateCorrelation([i \in 1..Len(scatterData) |-> scatterData[i].x],
                       [i \in 1..Len(scatterData) |-> scatterData[i].y])

\* ChartsPanel mounts on the result screen: useState(''),
\* useState(totalScoreName).
ChartsInit ==
  /\ StatIdle /\ PlanIdle /\ ExportIdle /\ MapperIdle
  /\ activeTab = "dashboard"
  /\ apiKey = TRUE
  /\ \E data \in ChartWorkbooks :
       \E m \in ChartMappings(getHeaders(data, ObjectKeys(data))) :
         AnalyzedState(data, m, AllStr)
  /\ analysis # <<>>
  /\ scatterX = <<>>
  /\ scatterY = totalColName

\* The effect that validates the axes and sets the defaults.
validateAxes ==
  /\ ChartsPanelMounted
  /\ ~IsValidAxis(scatterX) \/ ~IsValidAxis(scatterY)
  /\ scatterX' = IF IsValidAxis(scatterX) THEN scatterX
                 ELSE IF Len(componentKeys) > 0 THEN componentKeys[1]
                 ELSE totalColName
  /\ scatterY' = IF IsValidAxis(scatterY) THEN scatterY ELSE totalColName
  /\ UNCHANGED <<appVars, statVars, activeTab, apiKey, planVars, exportVars, mapperVars>>

\* The select of the x axis, once the effect has run.
setScatterX(key) ==
  /\ ChartsPanelMounted
  /\ IsValidAxis(scatterX) /\ IsValidAxis(scatterY)
  /\ scatterX' = key
  /\ UNCHANGED scatterY
  /\ UNCHANGED <<appVars, statVars, activeTab, apiKey, planVars, exportVars, mapperVars>>

\* The select of the y axis, once the effect has run.
setScatterY(key) ==
  /\ ChartsPanelMounted
  /\ IsValidAxis(scatterX) /\ IsValidAxis(scatterY)
  /\ scatterY' = key
  /\ UNCHANGED scatterX
  /\ UNCHANGED <<appVars, statVars, activeTab, apiKey, planVars, exportVars, mapperVars>>

\* Every sheet of ChartWorkbooks holds a named student, so a change of the
\* sheet filter leaves ChartsPanel mounted.
ChartsNext ==
  \/ validateAxes
  \/ \E key \in Range(validKeys) : setScatterX(key)
  \/ \E key \in Range(validKeys) : setScatterY(key)
  \/ \E f \in {AllStr} \cup Range(selectedSheetNames) : setSheetFilter(f)

SpecCharts == ChartsInit /\ [][ChartsNext]_vars

(***************************************************************************)
(* Properties of the classifier and of the statistics                      *)
(***************************************************************************)
\* Whether the number a is at least the integer n, by a's exact value
\* (false for NaN).
AtLeast(a, n) ==
  CASE a.k = "nan" -> FALSE
    [] a.k = "inf" -> a.m > 0
    [] OTHER -> IF a.e >= 0 THEN a.m * (2 ^ a.e) >= n ELSE a.m >= n * (2 ^ (-a.e))

\* C1: for every percentage p, determineGroup(p) is the one band and
\* determineGrade(p) the one letter of the tables, lower bounds inclusive:
\* High Achiever iff p >= 90, Above Average iff 75 <= p < 90, Average iff
\* 60 <= p < 75, Below Average iff 50 <= p < 60, At Risk otherwise; A iff
\* p >= 90, B iff 80 <= p < 90, C iff 70 <= p < 80, D iff 60 <= p < 70, F
\* otherwise.
C1_ClassifierTables ==
  outcome.op = "classify" =>
    LET p == percentage
        band == outcome.group
        grade == outcome.grade
    IN  /\ band \in {"High Achiever", "Above Average", "Average", "Below Average", "At Risk"}
        /\ (band = "High Achiever") <=> AtLeast(p, 90)
        /\ (band = "Above Average") <=> (AtLeast(p, 75) /\ ~AtLeast(p, 90))
        /\ (band = "Average") <=> (AtLeast(p, 60) /\ ~AtLeast(p, 75))
        /\ (band = "Below Average") <=> (AtLeast(p, 50) /\ ~AtLeast(p, 60))
        /\ (band = "At Risk") <=> ~AtLeast(p, 50)
        /\ grade \in {"A", "B", "C", "D", "F"}
        /\ (grade = "A") <=> AtLeast(p, 90)
        /\ (grade = "B") <=> (AtLeast(p, 80) /\ ~AtLeast(p, 90))
        /\ (grade = "C") <=> (AtLeast(p, 70) /\ ~AtLeast(p, 80))
        /\ (grade = "D") <=> (AtLeast(p, 60) /\ ~AtLeast(p, 70))
        /\ (grade = "F") <=> ~AtLeast(p, 60)

\* The classifier has answered for the boundary 75: Above Average, grade C.
C1_Witness ==
  /\ outcome.op = "classify"
  /\ percentage = FromInt(75)
  /\ outcome.group = "Above Average"
  /\ outcome.grade = "C"

\* Whether all elements of xs are the same value: a constant sequence,
\* whose variance is zero.
IsConstant(xs) == \A i, j \in 1..Len(xs) : xs[i] = xs[j]

\* C8: calculateCorrelation(x, y) returns 0 whenever the sequences differ
\* in length, either is empty, or either has zero variance (is constant or
\* has a single element).
C8_CorrelationSentinel ==
  (/\ outcome.op = "correlate"
   /\ \/ Len(numbers) # Len(others)
      \/ numbers = <<>>
      \/ others = <<>>
      \/ IsConstant(numbers)
      \/ IsConstant(others))
    => outcome.r = Zero

\* C9: each of calculateMean, calculateMedian, calculateMode,
\* calculateStdDev, calculateMin and calculateMax returns 0 for the empty
\* sequence.
C9_EmptySentinel ==
  (outcome.op = "describe" /\ numbers = <<>>) =>
    /\ outcome.mean = Zero
    /\ outcome.median = Zero
    /\ outcome.mode = Zero
    /\ outcome.stdDev = Zero
    /\ outcome.min = Zero
    /\ outcome.max = Zero

\* The six statistics have answered for the empty sequence.
C9_Witness == outcome.op = "describe" /\ numbers = <<>> /\ outcome.mean = Zero

\* The occurrences of v among the first n elements of xs.
CountUpTo(xs, v, n) == Cardinality({i \in 1..n : xs[i] = v})

\* The highest frequency of a value of xs.
MaxFrequency(xs) ==
  CHOOSE f \in 1..Len(xs) :
    /\ \E v \in Range(xs) : CountUpTo(xs, v, Len(xs)) = f
    /\ \A v \in Range(xs) : CountUpTo(xs, v, Len(xs)) <= f

\* The position at which the running count of v reaches f.
ReachedAt(xs, v, f) == CHOOSE n \in 1..Len(xs) : xs[n] = v /\ CountUpTo(xs, v, n) = f

\* C10: for a non-empty sequence calculateMode returns a value of maximal
\* frequency, and among the values of maximal frequency the one whose
\* running count reaches that frequency first in a left-to-right scan.
C10_ModeFirstToReach ==
  (outcome.op = "describe" /\ numbers # <<>>) =>
    LET f == MaxFrequency(numbers)
    IN  /\ outcome.mode \in Range(numbers)
        /\ CountUpTo(numbers, outcome.mode, Len(numbers)) = f
        /\ \A v \in Range(numbers) :
             CountUpTo(numbers, v, Len(numbers)) = f =>
               ReachedAt(numbers, outcome.mode, f) <= ReachedAt(numbers, v, f)

\* The mode of [1, 2, 2, 1] has been computed: 2, which reaches the count
\* 2 before 1 does.
C10_Witness ==
  /\ outcome.op = "describe"
  /\ numbers = <<FromInt(1), FromInt(2), FromInt(2), FromInt(1)>>
  /\ outcome.mode = FromInt(2)

\* The rearrangements of the sequence xs.
Rearrangements(xs) ==
  {[i \in 1..Len(xs) |-> xs[p[i]]] :
     p \in {q \in [1..Len(xs) -> 1..Len(xs)] : \A i, j \in 1..Len(xs) : q[i] = q[j] => i = j}}

\* Whether xs is in ascending order.
IsAscending(xs) == \A i, j \in 1..Len(xs) : i < j => Ge(xs[j], xs[i])

\* The middle element of the sorted sequence of odd length, the average
\* of its two middle elements when the length is even.
MiddleOf(sorted) ==
  IF Len(sorted) % 2 = 1 THEN sorted[(Len(sorted) + 1) \div 2]
  ELSE Div(Add(sorted[Len(sorted) \div 2], sorted[(Len(sorted) \div 2) + 1]), FromInt(2))

\* C11: for a non-empty sequence calculateMedian returns the middle
\* element of the ascending-sorted sequence (odd length) or the average
\* of its two middle elements (even length); the result does not depend
\* on the order of the input and lies between the minimum and the maximum.
C11_MedianOfSorted ==
  (outcome.op = "describe" /\ numbers # <<>>) =>
    /\ \E sorted \in Rearrangements(numbers) :
         IsAscending(sorted) /\ outcome.median = MiddleOf(sorted)
    /\ \A other \in Rearrangements(numbers) : calculateMedian(other) = outcome.median
    /\ \E i \in 1..Len(numbers) : Ge(outcome.median, numbers[i])
    /\ \E i \in 1..Len(numbers) : Ge(numbers[i], outcome.median)

\* The same formula over the sequences that hold no NaN.
C11_MedianOfSortedNumbers ==
  (\A i \in 1..Len(numbers) : ~isNaN(numbers[i])) => C11_MedianOfSorted

\* C12: calculateCorrelation is symmetric: calculateCorrelation(x, y) is
\* calculateCorrelation(y, x) for all sequences x and y, the cases that
\* return the sentinel 0 included.
C12_CorrelationSymmetric ==
  outcome.op = "correlate" => outcome.r = calculateCorrelation(others, numbers)

\* The correlation of two different sequences of three numbers that is
\* not the sentinel has been computed.
C12_Witness ==
  /\ outcome.op = "correlate"
  /\ Len(numbers) = 3
  /\ numbers # others
  /\ outcome.r # Zero
  /\ outcome.r = calculateCorrelation(others, numbers)

\* The positions of lookupRow whose key is lookupCol exactly, and those
\* whose key is lookupCol up to case and surrounding white space.
ExactPositions == {i \in 1..Len(lookupRow) : lookupRow[i].key = lookupCol}

FoldedPositions ==
  {i \in 1..Len(lookupRow) : trim(toLowerCase(lookupRow[i].key)) = trim(toLowerCase(lookupCol))}

\* C17: getSmartValue(row, col) returns the value under the key equal to
\* col when the row has one, even if other keys equal col up to case;
\* else the value under the first key equal to col up to case and
\* surrounding white space; else undefined.  The row is left as given.
C17_ExactThenFolded ==
  outcome.op = "lookup" =>
    /\ ExactPositions # {} =>
         \A i \in ExactPositions : outcome.value = lookupRow[i].val
    /\ (ExactPositions = {} /\ FoldedPositions # {}) =>
         \E i \in FoldedPositions :
           /\ \A j \in FoldedPositions : i <= j
           /\ outcome.value = lookupRow[i].val
    /\ FoldedPositions = {} => outcome.value = Undefined
    /\ outcome.row = lookupRow

\* The row holds the key asked for and, before it, a key equal to it up
\* to case: the value under the exact key is returned.
C17_Witness ==
  /\ outcome.op = "lookup"
  /\ ExactPositions = {2}
  /\ 1 \in FoldedPositions
  /\ outcome.value = lookupRow[2].val
  /\ outcome.value # lookupRow[1].val

(***************************************************************************)
(* Properties of the result screen                                         *)
(***************************************************************************)
\* A record with the student's own data removed.
Anonymous(student) ==
  [student EXCEPT !.id = <<>>, !.name = <<"?">>, !.class = <<>>, !.components = <<>>,
                  !.totalScore = Zero, !.percentage = Zero, !.originalRow = <<>>]

\* Student lists differing from students: none, the last student left
\* out, the students in reverse order, the students made anonymous.
OtherStudentLists(students) ==
  {<<>>,
   SubSeq(students, 1, Len(students) - 1),
   [i \in 1..Len(students) |-> students[Len(students) + 1 - i]],
   [i \in 1..Len(students) |-> Anonymous(students[i])]}

\* The texts a request carries.
TextsOf(request) ==
  {request.contents.mean, request.contents.stdDev, request.contents.passRate,
   request.contents.failing, request.contents.strongest, request.contents.weakest}
    \cup {request.contents.components[j].name : j \in 1..Len(request.contents.components)}
    \cup {request.contents.components[j].mean : j \in 1..Len(request.contents.components)}
    \cup {request.contents.components[j].correlation :
             j \in 1..Len(request.contents.components)}

\* C15: the request sent to the AI service depends only on the summary,
\* the component statistics and the strongest and weakest component: an
\* analysis equal in those and different in its students gives the same
\* request, and the request carries no student's name or id.
C15_RequestIgnoresStudents ==
  pending # <<>> =>
    /\ \A other \in OtherStudentLists(analysis[1].students) :
         GenerateContentRequest([analysis[1] EXCEPT !.students = other]) = pending[1]
    /\ \A i \in 1..Len(analysis[1].students) :
         /\ analysis[1].students[i].name \notin TextsOf(pending[1])
         /\ analysis[1].students[i].id \notin TextsOf(pending[1])

\* A request is in flight for an analysis of three students and two
\* components.
C15_Witness ==
  /\ pending # <<>>
  /\ Len(analysis[1].students) = 3
  /\ Len(pending[1].contents.components) = 2
  /\ pending[1].contents.failing = <<"0">>

\* The error message is on screen: only the start view renders error.
ErrorShown == ActionPlanMounted /\ PlanView = "start" /\ error # <<>>

\* A control that starts a generation is on screen: Generate Strategy in
\* the start view, Regenerate in the plan view.
RetryAvailable == ActionPlanMounted /\ PlanView \in {"start", "plan"}

\* C16: when a plan generation fails, ActionPlan ends in a state that is
\* not loading, shows the error message and offers a control to retry,
\* whether or not a plan generated before is on screen.
C16_FailureShowsRetryableError ==
  [][planFailed => (~loading' /\ ErrorShown' /\ RetryAvailable')]_vars

\* C16, for a failure with no plan on screen.
C16_FirstFailureShowsRetryableError ==
  [][(planFailed /\ plan = <<>>) => (~loading' /\ ErrorShown' /\ RetryAvailable')]_vars

\* C16, what holds after every failure: not loading, the error recorded,
\* a control to retry on screen.
C16_FailureLeavesRetryControl ==
  [][planFailed => (~loading' /\ error' = <<GenerationFailedMessage>> /\ RetryAvailable')]_vars

\* What the mounted ActionPlan shows and awaits belongs to the analysis it
\* is given.
PlanBelongsToAnalysis ==
  /\ Len(pending) <= 1
  /\ loading <=> pending # <<>>
  /\ pending # <<>> =>
       ActionPlanMounted /\ pending[1] = GenerateContentRequest(analysis[1])
  /\ plan # <<>> =>
       ActionPlanMounted /\ planSource = <<GenerateContentRequest(analysis[1])>>

\* C28: the plan on screen answers a request made for the analysis of the
\* current sheet filter; another filter discards plan, loading flag and
\* error, and the call in flight is left to an instance that shows nothing;
\* an instance starts a call only while it awaits none.
C28_PlanOfCurrentFilter ==
  /\ []PlanBelongsToAnalysis
  /\ [][sheetFilter' # sheetFilter =>
          /\ plan' = <<>> /\ ~loading' /\ error' = <<>> /\ pending' = <<>>
          /\ Range(pending) \subseteq stale']_vars
  /\ [][Len(pending') > Len(pending) => pending = <<>>]_vars

\* The plan for sheet 9A is on screen while a call made under another
\* filter has not returned.
C28_Witness ==
  /\ ActionPlanMounted
  /\ sheetFilter = Sheet9A
  /\ plan = <<FullPlan>>
  /\ \E request \in stale : <<request>> # planSource

(***************************************************************************)
(* Properties of the row normalizer and of the analysis                    *)
(***************************************************************************)
\* The positions of the merged rows whose name, as onMappingConfirmed
\* resolves it, is not empty after trimming.
NamedRows == {i \in 1..Len(allRows) : trim(ResolveName(allRows[i], mapping)) # <<>>}

\* The k-th smallest position of NamedRows.
NthNamedRow(k) == CHOOSE i \in NamedRows : Cardinality({j \in NamedRows : j <= i}) = k

\* C2: normalizing the merged rows yields one record for each row whose
\* resolved name is not empty after trimming and none for any other row:
\* as many records as rows minus the rows with an unresolved or empty
\* name, the records in the order of their rows.
C2_OneRecordPerNamedRow ==
  mapping # NoMapping =>
    /\ Len(allStudents) = Len(allRows) - Cardinality((1..Len(allRows)) \ NamedRows)
    /\ \A k \in 1..Len(allStudents) :
         /\ k <= Cardinality(NamedRows)
         /\ allStudents[k].originalRow = allRows[NthNamedRow(k)]
         /\ allStudents[k].name = ResolveName(allRows[NthNamedRow(k)], mapping)

\* Four rows were merged (two sheets); the row with a null name was
\* dropped and three records remain.
C2_Witness ==
  /\ mapping # NoMapping
  /\ Len(allRows) = 4
  /\ Len(allStudents) = 3
  /\ Cardinality(NamedRows) = 3

RECURSIVE SheetOfPosition(_, _)
\* The selected sheet holding the p-th merged row, counted from the
\* selection position i on: the sheets' rows follow one another in the
\* order of selectedSheetNames.
SheetOfPosition(p, i) ==
  With(IF hasOwnProperty(rawSheetData, selectedSheetNames[i])
       THEN Len(ObjGet(rawSheetData, selectedSheetNames[i])) ELSE 0, LAMBDA n :
    IF p <= n THEN selectedSheetNames[i] ELSE SheetOfPosition(p - n, i + 1))

\* The id the k-th record must carry: "s-", the sheet of its row, "-",
\* and the 0-based position of its row among the merged rows.
ExpectedId(k) ==
  <<"s", "-">> \o SheetOfPosition(NthNamedRow(k), 1) \o <<"-">>
    \o IntToString(NthNamedRow(k) - 1)

\* C13: within one normalization run the ids of the records are pairwise
\* distinct, and they are a function of the sheets, the order of the
\* selected sheets and the mapping alone (the sheet of the record's row
\* and the row's position among the merged rows), so that normalizing
\* the same input again gives every record the same id.
C13_IdsDistinctAndReproducible ==
  mapping # NoMapping =>
    /\ \A j, k \in 1..Len(allStudents) : j # k => allStudents[j].id # allStudents[k].id
    /\ \A k \in 1..Len(allStudents) : allStudents[k].id = ExpectedId(k)
    /\ With(ProcessStudents(MergeSheets(rawSheetData, selectedSheetNames, 1, <<>>), mapping),
            LAMBDA again :
         /\ Len(again) = Len(allStudents)
         /\ \A k \in 1..Len(again) : again[k].id = allStudents[k].id)

\* Sheet 9B was selected before sheet 9A: its second row has no name, so
\* the second record is the third merged row and carries the id s-9A-2;
\* two records come from the same sheet.
C13_Witness ==
  /\ mapping # NoMapping
  /\ selectedSheetNames = <<Sheet9B, Sheet9A>>
  /\ Len(allStudents) = 3
  /\ allStudents[2].id = <<"s", "-", "9", "A", "-", "2">>
  /\ allStudents[2].sheetName = allStudents[3].sheetName

C18_ClassFromGroupColumn ==
  mapping # NoMapping =>
    \A k \in 1..Len(allStudents) :
      IF mapping.classCol # <<>>
      THEN allStudents[k].class
             = String(getSmartValue(allRows[NthNamedRow(k)], mapping.classCol))
      ELSE allStudents[k].class = SheetOfPosition(NthNamedRow(k), 1)

\* C18 with the fallback of the code: the resolved value when a class
\* column is mapped and the value is truthy, else the sheet's name.
C18_ClassFromGroupColumnOrSheet ==
  mapping # NoMapping =>
    \A k \in 1..Len(allStudents) :
      IF mapping.classCol # <<>>
           /\ Truthy(getSmartValue(allRows[NthNamedRow(k)], mapping.classCol))
      THEN allStudents[k].class
             = String(getSmartValue(allRows[NthNamedRow(k)], mapping.classCol))
      ELSE allStudents[k].class = SheetOfPosition(NthNamedRow(k), 1)

\* The value a component cell stands for: the number parsed from it, 0
\* when the cell is absent, null or does not parse.
ComponentOfCell(c) ==
  IF c.t \in {"null", "undefined"} THEN Zero
  ELSE IF isNaN(parseFloat(String(c))) THEN Zero
  ELSE parseFloat(String(c))

\* The component values of the record s in the order of the mapped
\* component columns.
ComponentValues(s) ==
  [j \in 1..Len(mapping.componentCols) |-> ObjGet(s.components, mapping.componentCols[j])]

\* Whether the components of the record s are those of the cells of its
\* row under the mapped component columns.
ComponentsFromCells(s) ==
  /\ Len(s.components) = Len(mapping.componentCols)
  /\ \A j \in 1..Len(mapping.componentCols) :
       /\ hasOwnProperty(s.components, mapping.componentCols[j])
       /\ ObjGet(s.components, mapping.componentCols[j])
            = ComponentOfCell(getSmartValue(s.originalRow, mapping.componentCols[j]))

\* C3: when no total column is mapped, every record's totalScore is the
\* sum of its component values, each the number parsed from the resolved
\* cell, or 0 when the cell is absent, null or does not parse.
C3_TotalIsComponentSum ==
  (mapping # NoMapping /\ mapping.totalCol = <<>>) =>
    \A k \in 1..Len(allStudents) :
      /\ ComponentsFromCells(allStudents[k])
      /\ allStudents[k].totalScore = SumFrom(ComponentValues(allStudents[k]), 1, Zero)

\* The row {1: 40, Name: 'Ann'} with the component columns 1 and Name and
\* no total column: 'Ann' counts 0 and the total is 40.
C3_Witness ==
  /\ mapping # NoMapping
  /\ mapping.totalCol = <<>>
  /\ mapping.componentCols = <<KOne, KName>>
  /\ Len(allStudents) > 0
  /\ allStudents[1].components = <<[key |-> KOne, val |-> FromInt(40)],
                                   [key |-> KName, val |-> Zero]>>
  /\ allStudents[1].totalScore = FromInt(40)

\* Whether the cell c parses as a number.
ParsesAsNumber(c) == c.t \in {"string", "number"} /\ ~isNaN(parseFloat(String(c)))

\* C4: when a total column is mapped, a record's totalScore is the number
\* parsed from the resolved total cell whenever that cell parses, whatever
\* the components; otherwise it is the sum of the component values.
C4_TotalFromTotalColumn ==
  (mapping # NoMapping /\ mapping.totalCol # <<>>) =>
    \A k \in 1..Len(allStudents) :
      LET s == allStudents[k]
          cell == getSmartValue(s.originalRow, mapping.totalCol)
      IN  /\ ParsesAsNumber(cell) => s.totalScore = parseFloat(String(cell))
          /\ ~ParsesAsNumber(cell) =>
               /\ ComponentsFromCells(s)
               /\ s.totalScore = SumFrom(ComponentValues(s), 1, Zero)

\* The row {1: 40, Name: 'Ann', Quiz: '85'} with the component column 1
\* and the total column Quiz: the total is 85, not 40.
C4_Witness ==
  /\ mapping # NoMapping
  /\ mapping.totalCol = KQuiz
  /\ mapping.componentCols = <<KOne>>
  /\ Len(allStudents) > 0
  /\ allStudents[1].components = <<[key |-> KOne, val |-> FromInt(40)]>>
  /\ allStudents[1].totalScore = FromInt(85)

\* C5: performFullAnalysis counts every student once in passCount or in
\* failCount and once in a grade bin: passCount + failCount = A + B + C +
\* D + F = the number of students, passCount = A + B + C + D, failCount =
\* F.
C5_CountsPartition ==
  analysis # <<>> =>
    LET summary == analysis[1].result.summary
        dist == summary.gradeDist
        n == Len(analysis[1].students)
    IN  /\ summary.passCount + summary.failCount = n
        /\ dist.A + dist.B + dist.C + dist.D + dist.F = n
        /\ summary.passCount = dist.A + dist.B + dist.C + dist.D
        /\ summary.failCount = dist.F

\* The position in stats of the component called name.
PositionOf(stats, name) == CHOOSE j \in 1..Len(stats) : stats[j].name = name

\* C6: strongestComponent names a component whose mean is maximal among
\* the component stats, the first such component in component order.
C6_StrongestIsFirstMaximal ==
  (analysis # <<>> /\ Len(analysis[1].result.componentStats) > 0) =>
    LET stats == analysis[1].result.componentStats
        strongest == analysis[1].result.strongestComponent
    IN  /\ \E j \in 1..Len(stats) : stats[j].name = strongest
        /\ \A k \in 1..Len(stats) :
             Ge(stats[PositionOf(stats, strongest)].mean, stats[k].mean)
        /\ \A k \in 1..Len(stats) :
             stats[k].mean = stats[PositionOf(stats, strongest)].mean
               => PositionOf(stats, strongest) <= k

\* C7: weakestComponent names a component whose mean is minimal among the
\* component stats, the first such component in component order.
C7_WeakestIsFirstMinimal ==
  (analysis # <<>> /\ Len(analysis[1].result.componentStats) > 0) =>
    LET stats == analysis[1].result.componentStats
        weakest == analysis[1].result.weakestComponent
    IN  /\ \E j \in 1..Len(stats) : stats[j].name = weakest
        /\ \A k \in 1..Len(stats) :
             Ge(stats[k].mean, stats[PositionOf(stats, weakest)].mean)
        /\ \A k \in 1..Len(stats) :
             stats[k].mean = stats[PositionOf(stats, weakest)].mean
               => PositionOf(stats, weakest) <= k

\* The band of the table for the total p, lower bounds inclusive.
BandOf(p) ==
  IF AtLeast(p, 90) THEN "High Achiever"
  ELSE IF AtLeast(p, 75) THEN "Above Average"
  ELSE IF AtLeast(p, 60) THEN "Average"
  ELSE IF AtLeast(p, 50) THEN "Below Average"
  ELSE "At Risk"

\* C19: every record has percentage = totalScore and the band of the
\* table for totalScore, without rescaling by a maximum score; so the
\* scores the aggregator reads (percentage) are the totals the correlation
\* explorer reads (totalScore, under the name of the total).
C19_PercentageIsTotal ==
  mapping # NoMapping =>
    /\ \A k \in 1..Len(allStudents) :
         /\ allStudents[k].percentage = allStudents[k].totalScore
         /\ allStudents[k].group = BandOf(allStudents[k].totalScore)
    /\ analysis # <<>> =>
         /\ \A i \in 1..Len(analysis[1].students) :
              getStudentValue(analysis[1].students[i], totalColName, totalColName)
                = analysis[1].students[i].percentage
         /\ analysis[1].result.summary.mean
              = calculateMean([i \in 1..Len(analysis[1].students) |->
                                 getStudentValue(analysis[1].students[i], totalColName,
                                                 totalColName)])

\* A record whose components sum to 125: the percentage is 125, above
\* 100, and the band is High Achiever.
C19_Witness ==
  /\ mapping # NoMapping
  /\ analysis # <<>>
  /\ \E k \in 1..Len(allStudents) :
       /\ allStudents[k].totalScore = FromInt(125)
       /\ allStudents[k].percentage = FromInt(125)
       /\ allStudents[k].group = "High Achiever"

\* C20: componentStats has one entry for each key of the first record's
\* components, in the order of the keys; every student has a value for
\* each of them, and correlationWithTotal is the correlation of the
\* students' values for the component with the students' totals, both
\* taken over all students of the analysis in their order.
C20_StatsPerKeyAligned ==
  analysis # <<>> =>
    /\ Len(analysis[1].result.componentStats)
         = Len(ObjectKeys(analysis[1].students[1].components))
    /\ \A j \in 1..Len(analysis[1].result.componentStats) :
         /\ analysis[1].result.componentStats[j].name
              = ObjectKeys(analysis[1].students[1].components)[j]
         /\ \A i \in 1..Len(analysis[1].students) :
              hasOwnProperty(analysis[1].students[i].components,
                             analysis[1].result.componentStats[j].name)
         /\ analysis[1].result.componentStats[j].correlationWithTotal
              = calculateCorrelation(
                  [i \in 1..Len(analysis[1].students) |->
                     ObjGet(analysis[1].students[i].components,
                            analysis[1].result.componentStats[j].name)],
                  [i \in 1..Len(analysis[1].students) |->
                     analysis[1].students[i].totalScore])

\* Three students and two components, listed in the key order (1 before
\* Quiz) and not in the order of the mapping; the first component
\* correlates with the total.
C20_Witness ==
  /\ analysis # <<>>
  /\ Len(analysis[1].students) = 3
  /\ Len(analysis[1].result.componentStats) = 2
  /\ mapping.componentCols = <<KQuiz, KOne>>
  /\ analysis[1].result.componentStats[1].name = KOne
  /\ Gt(analysis[1].result.componentStats[1].correlationWithTotal, Zero)

\* The positions of the records the sheet filter lets through.
FilteredPositions ==
  {i \in 1..Len(allStudents) : sheetFilter = AllStr \/ allStudents[i].sheetName = sheetFilter}

\* C21: performFullAnalysis is called only with a filtered student
\* sequence that is not empty: the analysis is null exactly when no record
\* passes the sheet filter, and an analysis that is shown was computed
\* from at least one student.
C21_NoAnalysisOfNoStudents ==
  /\ (analysis = <<>>) <=> (FilteredPositions = {})
  /\ analysis # <<>> =>
       /\ Len(analysis[1].students) > 0
       /\ Len(analysis[1].students) = Cardinality(FilteredPositions)

\* At stage 4 there are records, the sheet filter names a sheet none of
\* them comes from, and the analysis is null.
C21_Witness ==
  /\ step = 4
  /\ Len(allStudents) > 0
  /\ sheetFilter = Sheet9B
  /\ FilteredPositions = {}
  /\ analysis = <<>>

\* The k-th smallest position of FilteredPositions.
NthFiltered(k) ==
  CHOOSE i \in FilteredPositions : Cardinality({j \in FilteredPositions : j <= i}) = k

\* C22: the analysis is the aggregation of exactly the records the
\* current sheet filter lets through, in their order among all records:
\* all of them for 'All', those of sheet S for the filter S; it is the
\* result performFullAnalysis gives for them now, whatever filters and
\* student sets came before.
C22_AnalysisOfCurrentFilter ==
  analysis # <<>> =>
    /\ Len(analysis[1].students) = Cardinality(FilteredPositions)
    /\ \A k \in 1..Len(analysis[1].students) :
         analysis[1].students[k] = allStudents[NthFiltered(k)]
    /\ sheetFilter = AllStr => analysis[1].students = allStudents
    /\ sheetFilter # AllStr =>
         \A k \in 1..Len(analysis[1].students) :
           analysis[1].students[k].sheetName = sheetFilter
    /\ analysis[1].result
         = performFullAnalysis([k \in 1..Cardinality(FilteredPositions) |->
                                  allStudents[NthFiltered(k)]])

\* The filter is sheet 9A: two of the three records are analysed.
C22_Witness ==
  /\ sheetFilter = Sheet9A
  /\ Len(allStudents) = 3
  /\ analysis # <<>>
  /\ Len(analysis[1].students) = 2
  /\ analysis[1].result.summary.mean # performFullAnalysis(allStudents).summary.mean

\* C25: every record of a normalization run has the component keys of
\* mapping.componentCols, whatever columns its row has: all records have
\* the keys of the first, and during aggregation every student holds a
\* number under every key read from the first record.
C25_SameComponentKeys ==
  mapping # NoMapping =>
    /\ \A k \in 1..Len(allStudents) :
         /\ Range(ObjectKeys(allStudents[k].components)) = Range(mapping.componentCols)
         /\ ObjectKeys(allStudents[k].components) = ObjectKeys(allStudents[1].components)
    /\ analysis # <<>> =>
         \A i \in 1..Len(analysis[1].students) :
           \A key \in Range(ObjectKeys(analysis[1].students[1].components)) :
             /\ hasOwnProperty(analysis[1].students[i].components, key)
             /\ ObjGet(analysis[1].students[i].components, key).k \in {"fin", "inf"}

\* A record of sheet 9B, whose rows have no column 1 and no column Quiz
\* spelled that way, holds both keys; the missing column counts 0.
C25_Witness ==
  /\ mapping # NoMapping
  /\ mapping.componentCols = <<KQuiz, KOne>>
  /\ \E k \in 1..Len(allStudents) :
       /\ allStudents[k].sheetName = Sheet9B
       /\ ~hasOwnProperty(allStudents[k].originalRow, KOne)
       /\ ObjectKeys(allStudents[k].components) = <<KOne, KQuiz>>
       /\ ObjGet(allStudents[k].components, KOne) = Zero
       /\ ObjGet(allStudents[k].components, KQuiz) = FromInt(65)

(***************************************************************************)
(* Properties of the file upload                                           *)
(***************************************************************************)
\* C30: after the duplicate-header handling the final header names are
\* pairwise distinct, so each kept column has its own key in a row object
\* and keeps its own value.
C30_FinalHeadersDistinct ==
  outcome.op = "headers" =>
    /\ Len(outcome.finalHeaders) = Len(keptHeaders)
    /\ \A i, j \in 1..Len(outcome.finalHeaders) :
         i # j => outcome.finalHeaders[i] # outcome.finalHeaders[j]
    /\ Len(outcome.rowObj) = Len(keptHeaders)
    /\ \A i \in 1..Len(keptHeaders) :
         ObjGet(outcome.rowObj, outcome.finalHeaders[i]) = NumCell(i)

\* C30 for header lists in which no header reads like a renamed
\* duplicate (none holds "_").
C30_DistinctWithoutSuffixedHeaders ==
  (\A i \in 1..Len(keptHeaders) : "_" \notin Range(keptHeaders[i])) => C30_FinalHeadersDistinct

(***************************************************************************)
(* Properties of the export                                                *)
(***************************************************************************)

RECURSIVE SliceHeights(_)
SliceHeights(ss) == IF ss = <<>> THEN 0 ELSE ss[1].h + SliceHeights(Tail(ss))

SlicingIsSound ==
  exportPc \in {"loop", "sliced"} =>
    /\ \A i \in 1..Len(slices) :
         /\ slices[i].h > 0
         /\ slices[i].y >= margin * pxPerMM
         /\ slices[i].y + slices[i].h <= (pdfHeight - bottomMargin) * pxPerMM
    /\ SliceHeights(slices) + remainingCanvasHeight = canvasHeight
    /\ currentSliceY = SliceHeights(slices)
    /\ remainingCanvasHeight >= 0
    /\ breaksInRow <= 1
    /\ exportPc = "sliced" => SliceHeights(slices) = canvasHeight

C27_SelectionWithinWorkbook ==
  step \in {3, 4} =>
    /\ Len(selectedSheetNames) > 0
    /\ \A i, j \in 1..Len(selectedSheetNames) :
         i # j => selectedSheetNames[i] # selectedSheetNames[j]
    /\ \A i \in 1..Len(selectedSheetNames) :
         /\ hasOwnProperty(rawSheetData, selectedSheetNames[i])
         /\ Len(ObjGet(rawSheetData, selectedSheetNames[i])) > 0

\* C26: the stage changes only from 1 to 2 when a file load completes,
\* from 2 to 3 when the sheets are confirmed, from 3 to 4 when a mapping is
\* confirmed (the sheet filter then being 'All'), from 2 to 1 and from 3
\* to 2 on Back, and from 4 to 1 on New Analysis.
C26_StageTransitions ==
  [][step' # step =>
       \/ step = 1 /\ step' = 2 /\ \E i \in 1..Len(reading) : onDataLoaded(i)
       \/ step = 2 /\ step' = 3 /\ onSheetsConfirmed
       \/ /\ step = 3 /\ step' = 4 /\ sheetFilter' = AllStr
          /\ \E m \in Mappings(getHeaders(rawSheetData, selectedSheetNames)) :
               onMappingConfirmed(m)
       \/ step = 2 /\ step' = 1 /\ BackToUpload
       \/ step = 3 /\ step' = 2 /\ BackToSheets
       \/ step = 4 /\ step' = 1 /\ NewAnalysis]_vars

\* Stage 4 is entered from stage 3 only, by a mapping confirmation and not
\* by a file load, with the sheet filter 'All'.
C26_AnalyzedByMappingConfirmation ==
  [][step' = 4 /\ step # 4 =>
       /\ step = 3
       /\ sheetFilter' = AllStr
       /\ reading' = reading
       /\ \E m \in Mappings(getHeaders(rawSheetData, selectedSheetNames)) :
            onMappingConfirmed(m)]_vars

(***************************************************************************)
(* Properties of the column mapping                                        *)
(***************************************************************************)

\* C24: in every mapping DataMapper passes to onConfirm, after any
\* auto-detection, component toggles and selections of the total column,
\* the total column, when set, is not among the component columns.
C24_TotalNotAComponent ==
  mapperPc = "confirmed" =>
    (mapping.totalCol # <<>> => mapping.totalCol \notin Range(mapping.componentCols))

\* The auto-detection leaves the total column out of the components.
C24_AutoDetectExcludesTotal ==
  [][autoDetect => draftMapping'.totalCol \notin Range(draftMapping'.componentCols)]_vars

(***************************************************************************)
(* Properties of the correlation explorer                                  *)
(***************************************************************************)

\* The value the explorer is to show for a student under a selector.
SelectedValue(student, selector) ==
  IF selector = totalColName THEN student.totalScore
  ELSE IF selector \in Range(ObjectKeys(student.components))
  THEN ObjGet(student.components, selector)
  ELSE Zero

\* C23: for each student and each selector the explorer's value is the
\* totalScore under the total selector, components[name] under the name of
\* a component, 0 otherwise; the series has one (x, y, name, group) tuple
\* per student in the students' order, and the correlation shown is
\* calculateCorrelation of its x and y values.
C23_SeriesOfSelectors ==
  ChartsPanelMounted =>
    /\ Len(scatterData) = Len(analysis[1].students)
    /\ \A i \in 1..Len(scatterData) :
         /\ scatterData[i].name = analysis[1].students[i].name
         /\ scatterData[i].group = analysis[1].students[i].group
         /\ scatterData[i].x = SelectedValue(analysis[1].students[i], scatterX)
         /\ scatterData[i].y = SelectedValue(analysis[1].students[i], scatterY)
    /\ correlationValue =
         calculateCorrelation(
           [i \in 1..Len(analysis[1].students) |->
              SelectedValue(analysis[1].students[i], scatterX)],
           [i \in 1..Len(analysis[1].students) |->
              SelectedValue(analysis[1].students[i], scatterY)])

\* Three students, a component on the x axis and the total on the y axis,
\* the total being a column that is not a component; the two series
\* differ and correlate.
C23_Witness ==
  /\ ChartsPanelMounted
  /\ Len(scatterData) = 3
  /\ scatterX \in Range(componentKeys)
  /\ scatterX # totalColName
  /\ scatterY = totalColName
  /\ \E i \in 1..3 : scatterData[i].x # scatterData[i].y
  /\ correlationValue # Zero

====
